---- MODULE Spec2Model ----
(***************************************************************************)
(* File manager of the storage-hub node: the File Data Trie (a Merkle      *)
(* Patricia trie of the chunks of one file) and the File Storage registry, *)
(* in their two realizations: InMemory* (client/file-manager/in_memory.rs) *)
(* and RocksDb* (client/file-manager/rocksdb.rs).                          *)
(*                                                                         *)
(* Hashes are modelled by what they commit to: the hash of a trie node is  *)
(* the node's description, so equal hashes mean equal nodes.  Chunk ids    *)
(* are below 16, so all trie keys differ only in their last nibble, and    *)
(* encoded chunks are at least 33 bytes long, so LayoutV1 keeps every      *)
(* value in a node of its own.  A trie over the chunk set S then has       *)
(*   - no node                               when S is empty (null root),  *)
(*   - a root leaf and one value node        when S has one chunk,         *)
(*   - a root branch, one leaf and one value node per chunk otherwise.     *)
(***************************************************************************)
EXTENDS Integers, FiniteSets, Sequences, TLC

\* ------------------------------------------------------------------ bounds
\* Largest chunk id used (chunk ids are 0..MaxChunkId).
MaxChunkId == 1
\* Most files registered in a File Storage at a time.
MaxFiles == 2
\* Most state-changing calls made to a File Storage in one run.
MaxCalls == 3

ChunkIds == 0..MaxChunkId
\* Chunk payloads: opaque byte buffers, of which two different ones are told apart.
Chunks == {"a", "b"}
\* What a failed read carries instead of a chunk.
NoChunk == "-"

Backends == {"InMemory", "RocksDb"}

\* --------------------------------------------------------- trie structure
IdsOf(S) == {p[1] : p \in S}
DataOf(S, i) == (CHOOSE p \in S : p[1] = i)[2]

\* The hash of the root node of the trie holding the chunk set S.
RootHash(S) == [kind |-> "root", c |-> S]
LeafNode(p) == [kind |-> "leaf", c |-> {p}]
ValueNode(p) == [kind |-> "value", c |-> {p}]
\* MemoryDB::default_with_root(): the hash of the null node.
EmptyRoot == RootHash({})

\* The nodes that make up the trie holding S (the null node is never stored).
NodesOf(S) ==
  IF S = {} THEN {}
  ELSE {RootHash(S)} \cup {ValueNode(p) : p \in S}
       \cup (IF Cardinality(S) >= 2 THEN {LeafNode(p) : p \in S} ELSE {})

\* ---------------------------------------------- memory-db (rc-counted map)
EmptyDb == [n \in {} |-> 0]
\* MemoryDB::get: an entry is visible only with a positive reference count.
Visible(db) == {n \in DOMAIN db : db[n] > 0}
\* MemoryDB::keys(): the entries whose reference count is not zero.
KeysOf(db) == {n \in DOMAIN db : db[n] # 0}
\* What dropping a TrieDBMut does to the HashDB under it: remove() for every
\* node on its death row, insert() for every new node.
TrieMutCommit(db, dead, fresh) ==
  [n \in (DOMAIN db) \cup dead \cup fresh |->
      (IF n \in DOMAIN db THEN db[n] ELSE 0)
      - (IF n \in dead THEN 1 ELSE 0)
      + (IF n \in fresh THEN 1 ELSE 0)]

\* Trie::get(key) over the node set `present`, from `root`.
\* st is "Found", "Absent" (Ok(None)) or "DbError" (a node is missing).
TrieGet(present, root, i) ==
  LET S == root.c IN
  IF S = {} THEN [st |-> "Absent", val |-> NoChunk]
  ELSE IF root \notin present THEN [st |-> "DbError", val |-> NoChunk]
  ELSE IF i \notin IdsOf(S) THEN [st |-> "Absent", val |-> NoChunk]
  ELSE LET p == <<i, DataOf(S, i)>> IN
       IF Cardinality(S) >= 2 /\ LeafNode(p) \notin present
         THEN [st |-> "DbError", val |-> NoChunk]
       ELSE IF ValueNode(p) \notin present THEN [st |-> "DbError", val |-> NoChunk]
       ELSE [st |-> "Found", val |-> p[2]]

\* The nodes a recorder sees while Trie::get(key) runs.
TrieGetRecorded(root, i) ==
  LET S == root.c IN
  IF S = {} THEN {}
  ELSE IF i \notin IdsOf(S) THEN {root}
  ELSE LET p == <<i, DataOf(S, i)>> IN
       {root, ValueNode(p)} \cup (IF Cardinality(S) >= 2 THEN {LeafNode(p)} ELSE {})

\* trie.iter().count() over `present`, from `root`; -1 when the iterator
\* cannot be constructed (the root node is missing).
TrieIterCount(present, root) ==
  IF root.c = {} THEN 0
  ELSE IF root \notin present THEN 0 - 1
  ELSE Cardinality(root.c)

\* ============================================================ File Data Trie
\* A File Data Trie is [root, db]: db is the MemoryDB of the in-memory trie
\* and the overlay (PrefixedMemoryDB) of the RocksDb trie.

\* TrieDBMut::insert into a trie that starts from the null root instead of the
\* root it was opened at.
TrieMutInsert_from_null(S, i, d) ==
  LET T == {<<i, d>>} IN
  [c |-> T, dead |-> NodesOf(S) \ NodesOf(T), fresh |-> NodesOf(T) \ NodesOf(S)]

\* TrieDBMut::insert of a key that is absent, then drop: the new chunk set,
\* and what the commit removes from / inserts into the HashDB.
TrieMutInsert(S, i, d) ==
  LET T == S \cup {<<i, d>>} IN
  [c |-> T, dead |-> NodesOf(S) \ NodesOf(T), fresh |-> NodesOf(T) \ NodesOf(S)]

\* ----------------------------------------------------- InMemoryFileDataTrie
InMemoryFileDataTrie_new == [root |-> EmptyRoot, db |-> EmptyDb]

InMemoryFileDataTrie_get_root(t) == t.root

InMemoryFileDataTrie_stored_chunks_count(t) ==
  LET n == TrieIterCount(Visible(t.db), t.root) IN
  IF n < 0 THEN [res |-> "FailedToConstructTrieIter", val |-> 0]
  ELSE [res |-> "Ok", val |-> n]

InMemoryFileDataTrie_get_chunk(t, i) ==
  LET g == TrieGet(Visible(t.db), t.root, i) IN
  IF g.st = "DbError" THEN [res |-> "FailedToGetFileChunk", val |-> NoChunk]
  ELSE IF g.st = "Absent" THEN [res |-> "FileChunkDoesNotExist", val |-> NoChunk]
  ELSE [res |-> "Ok", val |-> g.val]

InMemoryFileDataTrie_write_chunk(t, i, d) ==
  LET \* TrieDBMutBuilder::new resets the root; from_existing keeps it.
      root0 == IF KeysOf(t.db) = {} THEN EmptyRoot ELSE t.root
      g == TrieGet(Visible(t.db), root0, i)
      ins == TrieMutInsert(root0.c, i, d)
  IN
  IF g.st = "DbError" THEN [trie |-> t, res |-> "FailedToGetFileChunk"]
  ELSE IF g.st = "Found" THEN [trie |-> t, res |-> "FileChunkAlreadyExists"]
  ELSE [trie |-> [root |-> RootHash(ins.c),
                  db |-> TrieMutCommit(t.db, ins.dead, ins.fresh)],
        res |-> "Ok"]

InMemoryFileDataTrie_delete(t) == [trie |-> InMemoryFileDataTrie_new, res |-> "Ok"]

\* ------------------------------------------------------ RocksDbFileDataTrie
\* `chunks` is the content of CHUNKS_COLUMN of the key-value store: the set
\* of trie nodes on disk.

RocksDbFileDataTrie_new == [root |-> EmptyRoot, db |-> EmptyDb]

RocksDbFileDataTrie_from_existing(root) == [root |-> root, db |-> EmptyDb]

\* HashDB::get of the trie: the overlay first, then the storage.
RocksDbFileDataTrie_get(t, chunks) == Visible(t.db) \cup chunks

\* changes(): the overlay drained into one DBTransaction.
RocksDbFileDataTrie_changes(overlay) ==
  [dels |-> {n \in DOMAIN overlay : overlay[n] <= 0},
   puts |-> {n \in DOMAIN overlay : overlay[n] > 0}]

\* commit(new_root) without the comparison of new_root with the current root.
RocksDbFileDataTrie_commit_unconditional(t, chunks, new_root, ioOk) ==
  LET tx == RocksDbFileDataTrie_changes(t.db) IN
  IF ioOk
    THEN [trie |-> [root |-> new_root, db |-> EmptyDb],
          chunks |-> (chunks \ tx.dels) \cup tx.puts,
          res |-> "Ok"]
    ELSE [trie |-> [root |-> t.root, db |-> EmptyDb],
          chunks |-> chunks,
          res |-> "FailedToWriteToStorage"]

\* commit(new_root); ioOk tells whether the write of the batch succeeds.
RocksDbFileDataTrie_commit(t, chunks, new_root, ioOk) ==
  IF t.root = new_root THEN [trie |-> t, chunks |-> chunks, res |-> "Ok"]
  ELSE LET tx == RocksDbFileDataTrie_changes(t.db) IN
       IF ioOk
         THEN [trie |-> [root |-> new_root, db |-> EmptyDb],
               chunks |-> (chunks \ tx.dels) \cup tx.puts,
               res |-> "Ok"]
         ELSE [trie |-> [root |-> t.root, db |-> EmptyDb],
               chunks |-> chunks,
               res |-> "FailedToWriteToStorage"]

RocksDbFileDataTrie_get_root(t) == t.root

RocksDbFileDataTrie_stored_chunks_count(t, chunks) ==
  LET n == TrieIterCount(RocksDbFileDataTrie_get(t, chunks), t.root) IN
  IF n < 0 THEN [res |-> "FailedToConstructTrieIter", val |-> 0]
  ELSE [res |-> "Ok", val |-> n]

RocksDbFileDataTrie_get_chunk(t, chunks, i) ==
  LET g == TrieGet(RocksDbFileDataTrie_get(t, chunks), t.root, i) IN
  IF g.st = "DbError" THEN [res |-> "FailedToGetFileChunk", val |-> NoChunk]
  ELSE IF g.st = "Absent" THEN [res |-> "FileChunkDoesNotExist", val |-> NoChunk]
  ELSE [res |-> "Ok", val |-> g.val]

\* write_chunk without the check that the chunk id is free: the insert
\* replaces the chunk stored under the id.
RocksDbFileDataTrie_write_chunk_overwriting(t, chunks, i, d, ioOk) ==
  LET g == TrieGet(RocksDbFileDataTrie_get(t, chunks), t.root, i)
      ins == TrieMutInsert(t.root.c, i, d)
      dropped == [root |-> t.root, db |-> TrieMutCommit(t.db, ins.dead, ins.fresh)]
      com == RocksDbFileDataTrie_commit(dropped, chunks, RootHash(ins.c), ioOk)
  IN
  IF g.st = "DbError"
    THEN [trie |-> t, chunks |-> chunks, res |-> "FailedToGetFileChunk"]
  ELSE [trie |-> com.trie, chunks |-> com.chunks,
        res |-> IF com.res = "Ok" THEN "Ok" ELSE "FailedToPersistChanges"]

RocksDbFileDataTrie_write_chunk(t, chunks, i, d, ioOk) ==
  LET g == TrieGet(RocksDbFileDataTrie_get(t, chunks), t.root, i)
      ins == TrieMutInsert(t.root.c, i, d)
      dropped == [root |-> t.root, db |-> TrieMutCommit(t.db, ins.dead, ins.fresh)]
      com == RocksDbFileDataTrie_commit(dropped, chunks, RootHash(ins.c), ioOk)
  IN
  IF g.st = "DbError"
    THEN [trie |-> t, chunks |-> chunks, res |-> "FailedToGetFileChunk"]
  ELSE IF g.st = "Found"
    THEN [trie |-> t, chunks |-> chunks, res |-> "FileChunkAlreadyExists"]
  ELSE [trie |-> com.trie, chunks |-> com.chunks,
        res |-> IF com.res = "Ok" THEN "Ok" ELSE "FailedToPersistChanges"]

\* write_chunk up to its call of commit: the trie with the insert applied to
\* the overlay (the TrieDBMut dropped) and the root it is about to commit.
RocksDbFileDataTrie_write_chunk_pending(t, i, d) ==
  LET ins == TrieMutInsert(t.root.c, i, d) IN
  [trie |-> [root |-> t.root, db |-> TrieMutCommit(t.db, ins.dead, ins.fresh)],
   new_root |-> RootHash(ins.c)]

\* delete(): removes the keys 0..stored_chunks_count-1, then commits with the
\* root it started from, and only then moves root to the emptied trie's root.
RocksDbFileDataTrie_delete(t, chunks) ==
  LET cnt == RocksDbFileDataTrie_stored_chunks_count(t, chunks)
      S == t.root.c
      gone == {p \in S : p[1] < cnt.val}
      T == S \ gone
      \* the leaves TrieDBMut::remove has to load from the HashDB
      loads == IF Cardinality(S) >= 2 /\ gone # {}
                 THEN {LeafNode(p) : p \in gone}
                      \cup (IF Cardinality(T) = 1 THEN {LeafNode(p) : p \in T} ELSE {})
                 ELSE {}
      dropped == [root |-> t.root,
                  db |-> TrieMutCommit(t.db, NodesOf(S) \ NodesOf(T), NodesOf(T) \ NodesOf(S))]
      com == RocksDbFileDataTrie_commit(dropped, chunks, t.root, TRUE)
  IN
  IF cnt.res # "Ok"
    THEN [trie |-> t, chunks |-> chunks, res |-> "FailedToGetStoredChunksCount"]
  ELSE IF ~(loads \subseteq RocksDbFileDataTrie_get(t, chunks))
    THEN [trie |-> t, chunks |-> chunks, res |-> "FailedToDeleteChunk"]
  ELSE [trie |-> [com.trie EXCEPT !.root = RootHash(T)],
        chunks |-> com.chunks, res |-> "Ok"]

\* --------------------------------------------------------- generate_proof
\* generate_proof of either trie, over the node set `present`: every requested
\* chunk is read through a recording trie (the ids in increasing order), then
\* the recorded nodes are turned into a compact proof for `root`, which needs
\* the root node among them unless the trie is empty.
TrieGenerateProofOver(present, root, ids) ==
  LET bad == {i \in ids : TrieGet(present, root, i).st # "Found"}
      first == CHOOSE i \in bad : \A j \in bad : i <= j
      recorded == UNION {TrieGetRecorded(root, i) : i \in ids}
      NoProof(e) == [res |-> e, proof |-> {}, fingerprint |-> EmptyRoot]
  IN
  IF bad # {}
    THEN IF TrieGet(present, root, first).st = "DbError"
           THEN NoProof("FailedToGetFileChunk")
           ELSE NoProof("FileChunkDoesNotExist")
  ELSE IF root.c # {} /\ root \notin recorded
    THEN NoProof("FailedToGenerateCompactProof")
  ELSE [res |-> "Ok", proof |-> recorded, fingerprint |-> root]

InMemoryFileDataTrie_generate_proof(t, ids) ==
  TrieGenerateProofOver(Visible(t.db), t.root, ids)

RocksDbFileDataTrie_generate_proof(t, chunks, ids) ==
  TrieGenerateProofOver(RocksDbFileDataTrie_get(t, chunks), t.root, ids)

\* FileProof / FileKeyProof::proven: the leaves a verifier recovers from the
\* proof, replayed against its fingerprint.
Proven(pr) == {p \in pr.fingerprint.c : ValueNode(p) \in pr.proof}

\* ================================================================ metadata
\* FILE_CHUNK_SIZE: the size of a chunk in bytes.
FILE_CHUNK_SIZE == 1024

Buckets == {"b1", "b2"}

\* FileMetadata::chunks_count(): ceil(file_size / FILE_CHUNK_SIZE).
chunks_count(m) == (m.file_size + FILE_CHUNK_SIZE - 1) \div FILE_CHUNK_SIZE

\* FileMetadata::file_key(): the hash of the encoded metadata.
file_key(m) == <<"file_key", m>>

\* The content a client declares: k chunks, all "a" but the last, which is d.
Content(k, d) == {<<i, "a">> : i \in 0..(k - 2)} \cup {<<k - 1, d>>}

\* The smallest file of k chunks: its last chunk holds one byte.
FileSize(k) == (k - 1) * FILE_CHUNK_SIZE + 1

\* The metadata of a storage request for a file of k chunks, all of them "a",
\* in bucket b: the fingerprint is the root of the trie of that content.
Metadata(b, k) ==
  [bucket_id |-> b, file_size |-> FileSize(k), fingerprint |-> RootHash(Content(k, "a"))]

\* The storage requests of the model: the same file of MaxChunkId + 1 chunks in
\* both buckets, and in the first bucket a file that is its first chunk only.
Metas ==
  {Metadata(b, MaxChunkId + 1) : b \in Buckets} \cup {Metadata("b1", 1)}

FileKeys == {file_key(m) : m \in Metas}

\* serde_json::to_vec / from_slice of a FileMetadata.
SerializeMetadata(m) == <<"json", m>>
DeserializeMetadata(raw) == raw[2]

Put(f, k, v) == [x \in (DOMAIN f) \cup {k} |-> IF x = k THEN v ELSE f[x]]
Remove(f, k) == [x \in (DOMAIN f) \ {k} |-> f[x]]

\* What get_metadata returns for None: no metadata of a file.
NoMetadata == [bucket_id |-> "-", file_size |-> 0, fingerprint |-> EmptyRoot]
NoProof == [proof |-> {}, fingerprint |-> EmptyRoot, file_metadata |-> NoMetadata]

\* ====================================================== InMemoryFileStorage
\* f is [metadata, file_data, bucket_prefix_map].

InMemoryFileStorage_get_metadata(f, key) ==
  IF key \in DOMAIN f.metadata THEN [res |-> "Ok", out |-> f.metadata[key]]
  ELSE [res |-> "Ok", out |-> NoMetadata]

InMemoryFileStorage_insert_file_with_data(f, key, m, trie) ==
  IF key \in DOMAIN f.metadata THEN [fs |-> f, res |-> "FileAlreadyExists"]
  ELSE IF key \in DOMAIN f.file_data
    THEN [fs |-> [f EXCEPT !.metadata = Put(@, key, m), !.file_data = Put(@, key, trie)],
          res |-> "Panic"]
  ELSE [fs |-> [metadata |-> Put(f.metadata, key, m),
                file_data |-> Put(f.file_data, key, trie),
                bucket_prefix_map |-> f.bucket_prefix_map \cup {<<m.bucket_id, key>>}],
        res |-> "Ok"]

InMemoryFileStorage_insert_file(f, key, m) ==
  InMemoryFileStorage_insert_file_with_data(f, key, m, InMemoryFileDataTrie_new)

InMemoryFileStorage_stored_chunks_count(f, key) ==
  IF key \notin DOMAIN f.file_data THEN [res |-> "FileDoesNotExist", out |-> 0]
  ELSE LET r == InMemoryFileDataTrie_stored_chunks_count(f.file_data[key]) IN
       [res |-> r.res, out |-> r.val]

InMemoryFileStorage_get_chunk(f, key, i) ==
  IF key \notin DOMAIN f.file_data THEN [res |-> "FileDoesNotExist", out |-> NoChunk]
  ELSE LET r == InMemoryFileDataTrie_get_chunk(f.file_data[key], i) IN
       [res |-> r.res, out |-> r.val]

InMemoryFileStorage_write_chunk(f, key, i, d) ==
  IF key \notin DOMAIN f.file_data THEN [fs |-> f, res |-> "FileDoesNotExist"]
  ELSE
    LET w == InMemoryFileDataTrie_write_chunk(f.file_data[key], i, d)
        g == [f EXCEPT !.file_data[key] = w.trie]
        cnt == InMemoryFileDataTrie_stored_chunks_count(w.trie)
    IN
    IF w.res # "Ok" THEN [fs |-> f, res |-> w.res]
    ELSE IF key \notin DOMAIN f.metadata THEN [fs |-> g, res |-> "Panic"]
    ELSE IF cnt.res # "Ok" THEN [fs |-> g, res |-> "FailedToConstructTrieIter"]
    ELSE IF chunks_count(f.metadata[key]) # cnt.val THEN [fs |-> g, res |-> "FileIncomplete"]
    ELSE IF f.metadata[key].fingerprint # InMemoryFileDataTrie_get_root(w.trie)
      THEN [fs |-> g, res |-> "FingerprintAndStoredFileMismatch"]
    ELSE [fs |-> g, res |-> "FileComplete"]

\* generate_proof without the comparison of the trie root with the fingerprint.
InMemoryFileStorage_generate_proof_unchecked_root(f, key, ids) ==
  IF key \notin DOMAIN f.metadata THEN [res |-> "FileDoesNotExist", out |-> NoProof]
  ELSE IF key \notin DOMAIN f.file_data THEN [res |-> "Panic", out |-> NoProof]
  ELSE
    LET m == f.metadata[key]
        t == f.file_data[key]
        cnt == InMemoryFileDataTrie_stored_chunks_count(t)
        pr == InMemoryFileDataTrie_generate_proof(t, ids)
    IN
    IF cnt.res # "Ok" THEN [res |-> cnt.res, out |-> NoProof]
    ELSE IF chunks_count(m) # cnt.val THEN [res |-> "IncompleteFile", out |-> NoProof]
    ELSE IF pr.res # "Ok" THEN [res |-> pr.res, out |-> NoProof]
    ELSE [res |-> "Ok",
          out |-> [proof |-> pr.proof, fingerprint |-> pr.fingerprint, file_metadata |-> m]]

InMemoryFileStorage_generate_proof(f, key, ids) ==
  IF key \notin DOMAIN f.metadata THEN [res |-> "FileDoesNotExist", out |-> NoProof]
  ELSE IF key \notin DOMAIN f.file_data THEN [res |-> "Panic", out |-> NoProof]
  ELSE
    LET m == f.metadata[key]
        t == f.file_data[key]
        cnt == InMemoryFileDataTrie_stored_chunks_count(t)
        pr == InMemoryFileDataTrie_generate_proof(t, ids)
    IN
    IF cnt.res # "Ok" THEN [res |-> cnt.res, out |-> NoProof]
    ELSE IF chunks_count(m) # cnt.val THEN [res |-> "IncompleteFile", out |-> NoProof]
    ELSE IF m.fingerprint # InMemoryFileDataTrie_get_root(t)
      THEN [res |-> "FingerprintAndStoredFileMismatch", out |-> NoProof]
    ELSE IF pr.res # "Ok" THEN [res |-> pr.res, out |-> NoProof]
    ELSE [res |-> "Ok",
          out |-> [proof |-> pr.proof, fingerprint |-> pr.fingerprint, file_metadata |-> m]]

\* delete_file that drops the trie of the file and keeps its metadata.
InMemoryFileStorage_delete_file_keeping_metadata(f, key) ==
  [fs |-> [f EXCEPT !.file_data = Remove(@, key)], res |-> "Ok"]

InMemoryFileStorage_delete_file(f, key) ==
  [fs |-> [f EXCEPT !.metadata = Remove(@, key), !.file_data = Remove(@, key)],
   res |-> "Ok"]

InMemoryFileStorage_delete_files_with_prefix(f, prefix) ==
  LET keys_to_delete == {e[2] : e \in {x \in f.bucket_prefix_map : x[1] = prefix}} IN
  [fs |-> [f EXCEPT
             !.metadata = [k \in (DOMAIN @) \ keys_to_delete |-> @[k]],
             !.file_data = [k \in (DOMAIN @) \ keys_to_delete |-> @[k]]],
   res |-> "Ok"]

\* ======================================================= RocksDbFileStorage
\* st is the key-value store by column: metadata (METADATA_COLUMN), roots
\* (ROOTS_COLUMN: fingerprint -> partial root), chunks (CHUNKS_COLUMN) and
\* bucket_prefix (BUCKET_PREFIX_COLUMN: bucket id ++ file key).

RocksDbFileStorage_get_metadata(st, key) ==
  IF key \in DOMAIN st.metadata
    THEN [res |-> "Ok", out |-> DeserializeMetadata(st.metadata[key])]
  ELSE [res |-> "Ok", out |-> NoMetadata]

\* insert_file that keeps the partial root already stored for the fingerprint.
RocksDbFileStorage_insert_file_keeping_root(st, key, m) ==
  [st |-> [st EXCEPT !.metadata = Put(@, key, SerializeMetadata(m)),
                     !.roots = IF m.fingerprint \in DOMAIN @ THEN @
                               ELSE Put(@, m.fingerprint, EmptyRoot)],
   res |-> "Ok"]

RocksDbFileStorage_insert_file(st, key, m) ==
  [st |-> [st EXCEPT !.metadata = Put(@, key, SerializeMetadata(m)),
                     !.roots = Put(@, m.fingerprint, EmptyRoot)],
   res |-> "Ok"]

RocksDbFileStorage_insert_file_with_data(st, key, m, trie) ==
  [st |-> [st EXCEPT !.metadata = Put(@, key, SerializeMetadata(m)),
                     !.roots = Put(@, m.fingerprint, RocksDbFileDataTrie_get_root(trie)),
                     !.bucket_prefix = @ \cup {<<m.bucket_id, key>>}],
   res |-> "Ok"]

\* stored_chunks_count that counts the chunks of an empty trie for a key
\* without metadata.
RocksDbFileStorage_stored_chunks_count_defaulting(st, key) ==
  LET md == RocksDbFileStorage_get_metadata(st, key)
      root == IF md.out = NoMetadata THEN EmptyRoot ELSE md.out.fingerprint
      r == RocksDbFileDataTrie_stored_chunks_count(
             RocksDbFileDataTrie_from_existing(root), st.chunks)
  IN [res |-> r.res, out |-> r.val]

RocksDbFileStorage_stored_chunks_count(st, key) ==
  LET md == RocksDbFileStorage_get_metadata(st, key) IN
  IF md.out = NoMetadata THEN [res |-> "FileDoesNotExist", out |-> 0]
  ELSE LET file_trie == RocksDbFileDataTrie_from_existing(md.out.fingerprint)
           r == RocksDbFileDataTrie_stored_chunks_count(file_trie, st.chunks)
       IN [res |-> r.res, out |-> r.val]

RocksDbFileStorage_get_chunk(st, key, i) ==
  LET md == RocksDbFileStorage_get_metadata(st, key) IN
  IF md.out = NoMetadata THEN [res |-> "FileDoesNotExist", out |-> NoChunk]
  ELSE IF md.out.fingerprint \notin DOMAIN st.roots THEN [res |-> "Panic", out |-> NoChunk]
  ELSE LET file_trie == RocksDbFileDataTrie_from_existing(st.roots[md.out.fingerprint])
           r == RocksDbFileDataTrie_get_chunk(file_trie, st.chunks, i)
       IN [res |-> r.res, out |-> r.val]

RocksDbFileStorage_write_chunk(st, key, i, d) ==
  LET md == RocksDbFileStorage_get_metadata(st, key) IN
  IF md.out = NoMetadata THEN [st |-> st, res |-> "FileDoesNotExist"]
  ELSE IF md.out.fingerprint \notin DOMAIN st.roots THEN [st |-> st, res |-> "Panic"]
  ELSE
    LET file_trie == RocksDbFileDataTrie_from_existing(st.roots[md.out.fingerprint])
        w == RocksDbFileDataTrie_write_chunk(file_trie, st.chunks, i, d, TRUE)
        st2 == [st EXCEPT !.chunks = w.chunks,
                          !.roots = Put(@, md.out.fingerprint,
                                        RocksDbFileDataTrie_get_root(w.trie))]
        cnt == RocksDbFileDataTrie_stored_chunks_count(w.trie, w.chunks)
    IN
    IF w.res # "Ok" THEN [st |-> st, res |-> "FailedToInsertFileChunk"]
    ELSE IF cnt.res # "Ok" THEN [st |-> st2, res |-> "FailedToConstructTrieIter"]
    ELSE IF chunks_count(md.out) # cnt.val THEN [st |-> st2, res |-> "FileIncomplete"]
    ELSE [st |-> st2, res |-> "FileComplete"]

RocksDbFileStorage_generate_proof(st, key, ids) ==
  LET md == RocksDbFileStorage_get_metadata(st, key) IN
  IF md.out = NoMetadata THEN [res |-> "FileDoesNotExist", out |-> NoProof]
  ELSE IF md.out.fingerprint \notin DOMAIN st.roots THEN [res |-> "Panic", out |-> NoProof]
  ELSE
    LET m == md.out
        file_trie == RocksDbFileDataTrie_from_existing(st.roots[m.fingerprint])
        cnt == RocksDbFileDataTrie_stored_chunks_count(file_trie, st.chunks)
        pr == RocksDbFileDataTrie_generate_proof(file_trie, st.chunks, ids)
    IN
    IF cnt.res # "Ok" THEN [res |-> cnt.res, out |-> NoProof]
    ELSE IF chunks_count(m) # cnt.val THEN [res |-> "IncompleteFile", out |-> NoProof]
    ELSE IF m.fingerprint # RocksDbFileDataTrie_get_root(file_trie)
      THEN [res |-> "FingerprintAndStoredFileMismatch", out |-> NoProof]
    ELSE IF pr.res # "Ok" THEN [res |-> pr.res, out |-> NoProof]
    ELSE [res |-> "Ok",
          out |-> [proof |-> pr.proof, fingerprint |-> pr.fingerprint, file_metadata |-> m]]

RocksDbFileStorage_delete_file(st, key) ==
  LET md == RocksDbFileStorage_get_metadata(st, key) IN
  IF md.out = NoMetadata THEN [st |-> st, res |-> "FileDoesNotExist"]
  ELSE
    LET file_trie == RocksDbFileDataTrie_from_existing(md.out.fingerprint)
        del == RocksDbFileDataTrie_delete(file_trie, st.chunks)
    IN
    IF del.res # "Ok" THEN [st |-> st, res |-> "FailedToDeleteFileChunk"]
    ELSE [st |-> [st EXCEPT !.chunks = del.chunks,
                            !.metadata = Remove(@, key),
                            !.roots = Remove(@, md.out.fingerprint),
                            !.bucket_prefix = @ \ {<<md.out.bucket_id, key>>}],
          res |-> "Ok"]

\* delete_files_with_prefix: delete_file for every key the prefix iteration
\* yields (order: the keys in iteration order), stopping at the first error.
RECURSIVE RocksDbDeleteEach(_, _)
RocksDbDeleteEach(st, order) ==
  IF order = <<>> THEN [st |-> st, res |-> "Ok"]
  ELSE LET r == RocksDbFileStorage_delete_file(st, Head(order)) IN
       IF r.res # "Ok" THEN r ELSE RocksDbDeleteEach(r.st, Tail(order))

RocksDbFileStorage_keys_with_prefix(st, prefix) ==
  {e[2] : e \in {x \in st.bucket_prefix : x[1] = prefix}}

RocksDbFileStorage_delete_files_with_prefix(st, prefix, order) ==
  RocksDbDeleteEach(st, order)

\* ===================================================================== state
VARIABLES
  backend,    \* which realization this node runs: "InMemory" or "RocksDb"
  file_trie,  \* a File Data Trie owned by the caller
  twin,       \* a second File Data Trie: an in-memory one given the same calls
              \* as file_trie, or one of the same backend written on its own
  storage,    \* the key-value store of the RocksDb backend, by column
  fs,         \* the InMemoryFileStorage: metadata, file_data, bucket_prefix_map
  uploaded,   \* history: for each key whose last registration was an insert_file
              \* followed by writes of distinct declared chunks only, the ids
              \* of the chunks written since; for two tries written on their
              \* own, the chunks each accepted, in the order of the writes
  calls,      \* number of state-changing File Storage calls made so far
  last,       \* the last call made and what it returned
  file_transfer,   \* the file keys registered for upload in the file transfer service
  queue,           \* the requests queued in the blockchain service, oldest first
  capacity_queue,  \* BspUploadFileTask::capacity_queue: the bytes waiting for a capacity change
  tasks,           \* the event handlers in progress: for each, where it is and what it holds
  locks,           \* who holds the file storage lock and the capacity queue mutex
  chain            \* what the node has submitted to, and sees of, the chain

\* The state of the node around its File Storage.
node == <<file_transfer, queue, capacity_queue, tasks, locks, chain>>

vars == <<backend, file_trie, twin, storage, fs, uploaded, calls, last, node>>

EmptyFcn == [x \in {} |-> 0]

\* A node whose tasks have not run.
NodeIdle ==
  /\ file_transfer = {}
  /\ queue = <<>>
  /\ capacity_queue = 0
  /\ tasks = EmptyFcn
  /\ locks = [file_storage |-> {}, capacity_queue |-> {}]
  /\ chain = EmptyFcn

EmptyStorage ==
  [metadata |-> EmptyFcn, roots |-> EmptyFcn, chunks |-> {}, bucket_prefix |-> {}]

InMemoryFileStorage_new ==
  [metadata |-> EmptyFcn, file_data |-> EmptyFcn, bucket_prefix_map |-> {}]

\* A call record: the operation, the arguments of a state-changing call, and
\* the result it returned.
Call(op, args, res) == [op |-> op, args |-> args, res |-> res]

\* ------------------------------------------- the trie seen through its trait
FileDataTrie_get_root(b, t) ==
  IF b = "InMemory" THEN InMemoryFileDataTrie_get_root(t)
  ELSE RocksDbFileDataTrie_get_root(t)

FileDataTrie_get_chunk(b, t, st, i) ==
  IF b = "InMemory" THEN InMemoryFileDataTrie_get_chunk(t, i)
  ELSE RocksDbFileDataTrie_get_chunk(t, st.chunks, i)

FileDataTrie_stored_chunks_count(b, t, st) ==
  IF b = "InMemory" THEN InMemoryFileDataTrie_stored_chunks_count(t)
  ELSE RocksDbFileDataTrie_stored_chunks_count(t, st.chunks)

FileDataTrie_generate_proof(b, t, st, ids) ==
  IF b = "InMemory" THEN InMemoryFileDataTrie_generate_proof(t, ids)
  ELSE RocksDbFileDataTrie_generate_proof(t, st.chunks, ids)

FileDataTrie_write_chunk(b, t, st, i, d, ioOk) ==
  IF b = "InMemory"
    THEN LET r == InMemoryFileDataTrie_write_chunk(t, i, d) IN
         [trie |-> r.trie, chunks |-> st.chunks, res |-> r.res]
    ELSE RocksDbFileDataTrie_write_chunk(t, st.chunks, i, d, ioOk)

FileDataTrie_delete(b, t, st) ==
  IF b = "InMemory"
    THEN LET r == InMemoryFileDataTrie_delete(t) IN
         [trie |-> r.trie, chunks |-> st.chunks, res |-> r.res]
    ELSE RocksDbFileDataTrie_delete(t, st.chunks)

\* ------------------------------------------------ File Data Trie operations
TrieWriteChunk(i, d, ioOk) ==
  LET r == FileDataTrie_write_chunk(backend, file_trie, storage, i, d, ioOk) IN
  /\ file_trie' = r.trie
  /\ storage' = [storage EXCEPT !.chunks = r.chunks]
  /\ last' = Call("trie.write_chunk", <<i, d>>, r.res)
  /\ UNCHANGED <<node, backend, twin, fs, uploaded, calls>>

TrieGetChunk(i) ==
  LET r == FileDataTrie_get_chunk(backend, file_trie, storage, i) IN
  /\ last' = Call("trie.get_chunk", <<i>>, r.res)
  /\ UNCHANGED <<node, backend, twin, file_trie, storage, fs, uploaded, calls>>

TrieStoredChunksCount ==
  LET r == FileDataTrie_stored_chunks_count(backend, file_trie, storage) IN
  /\ last' = Call("trie.stored_chunks_count", <<>>, r.res)
  /\ UNCHANGED <<node, backend, twin, file_trie, storage, fs, uploaded, calls>>

TrieGenerateProof(ids) ==
  LET r == FileDataTrie_generate_proof(backend, file_trie, storage, ids) IN
  /\ last' = Call("trie.generate_proof", <<ids>>, r.res)
  /\ UNCHANGED <<node, backend, twin, file_trie, storage, fs, uploaded, calls>>

TrieDelete ==
  LET r == FileDataTrie_delete(backend, file_trie, storage) IN
  /\ file_trie' = r.trie
  /\ storage' = [storage EXCEPT !.chunks = r.chunks]
  /\ last' = Call("trie.delete", <<>>, r.res)
  /\ UNCHANGED <<node, backend, twin, fs, uploaded, calls>>

InitTrie ==
  /\ backend \in Backends
  /\ file_trie = (IF backend = "InMemory" THEN InMemoryFileDataTrie_new
                  ELSE RocksDbFileDataTrie_new)
  /\ twin = InMemoryFileDataTrie_new
  /\ storage = EmptyStorage
  /\ fs = InMemoryFileStorage_new
  /\ uploaded = EmptyFcn
  /\ calls = 0
  /\ last = Call("new", <<>>, "Ok")
  /\ NodeIdle

NextTrie ==
  \/ \E i \in ChunkIds, d \in Chunks : TrieWriteChunk(i, d, TRUE)
  \/ \E i \in ChunkIds : TrieGetChunk(i)
  \/ TrieStoredChunksCount
  \/ \E ids \in SUBSET ChunkIds : TrieGenerateProof(ids)
  \/ TrieDelete

\* One File Data Trie of either backend, driven through its trait.
SpecTrie == InitTrie /\ [][NextTrie]_vars

\* ------------------------------------ the durable trie with failing writes
\* The roots a caller hands to commit: the root the trie has (a flush with
\* nothing to write) and the root whose commit has just failed (a retry).
CommitRoots ==
  {file_trie.root}
  \cup (IF last.op = "trie.write_chunk" /\ last.res = "FailedToPersistChanges"
          THEN {RocksDbFileDataTrie_write_chunk_pending(
                  file_trie, last.args[1], last.args[2]).new_root}
          ELSE {})
  \cup (IF last.op = "trie.commit" /\ last.res = "FailedToWriteToStorage"
          THEN {last.args[1]}
          ELSE {})

DurableWriteChunk(i, d, ioOk) ==
  LET r == RocksDbFileDataTrie_write_chunk(file_trie, storage.chunks, i, d, ioOk) IN
  /\ calls < MaxCalls
  /\ file_trie' = r.trie
  /\ storage' = [storage EXCEPT !.chunks = r.chunks]
  /\ calls' = calls + 1
  /\ last' = Call("trie.write_chunk", <<i, d>>, r.res)
  /\ UNCHANGED <<node, backend, twin, fs, uploaded>>

DurableCommit(new_root, ioOk) ==
  LET r == RocksDbFileDataTrie_commit(file_trie, storage.chunks, new_root, ioOk) IN
  /\ calls < MaxCalls
  /\ file_trie' = r.trie
  /\ storage' = [storage EXCEPT !.chunks = r.chunks]
  /\ calls' = calls + 1
  /\ last' = Call("trie.commit", <<new_root>>, r.res)
  /\ UNCHANGED <<node, backend, twin, fs, uploaded>>

DurableDelete ==
  LET r == RocksDbFileDataTrie_delete(file_trie, storage.chunks) IN
  /\ calls < MaxCalls
  /\ file_trie' = r.trie
  /\ storage' = [storage EXCEPT !.chunks = r.chunks]
  /\ calls' = calls + 1
  /\ last' = Call("trie.delete", <<>>, r.res)
  /\ UNCHANGED <<node, backend, twin, fs, uploaded>>

InitCommit == InitTrie /\ backend = "RocksDb"

NextCommit ==
  \/ \E i \in ChunkIds, d \in Chunks, ioOk \in BOOLEAN : DurableWriteChunk(i, d, ioOk)
  \/ \E new_root \in CommitRoots, ioOk \in BOOLEAN : DurableCommit(new_root, ioOk)
  \/ DurableDelete
  \/ \E i \in ChunkIds : TrieGetChunk(i)

\* One durable File Data Trie whose writes to the store can fail, driven
\* through its trait and its commit.
SpecCommit == InitCommit /\ [][NextCommit]_vars

\* ------------------------------------------ the two tries, call for call
\* Every call is made on the durable trie file_trie and on the in-memory trie
\* twin; the call record holds what each returned, the in-memory result first.
BothWriteChunk(i, d) ==
  LET m == InMemoryFileDataTrie_write_chunk(twin, i, d)
      r == RocksDbFileDataTrie_write_chunk(file_trie, storage.chunks, i, d, TRUE)
  IN
  /\ twin' = m.trie
  /\ file_trie' = r.trie
  /\ storage' = [storage EXCEPT !.chunks = r.chunks]
  /\ last' = Call("both.write_chunk", <<i, d>>, <<m.res, r.res>>)
  /\ UNCHANGED <<node, backend, fs, uploaded, calls>>

BothGetChunk(i) ==
  LET m == InMemoryFileDataTrie_get_chunk(twin, i)
      r == RocksDbFileDataTrie_get_chunk(file_trie, storage.chunks, i)
  IN
  /\ last' = Call("both.get_chunk", <<i>>, <<m.res, r.res>>)
  /\ UNCHANGED <<node, backend, file_trie, twin, storage, fs, uploaded, calls>>

BothStoredChunksCount ==
  LET m == InMemoryFileDataTrie_stored_chunks_count(twin)
      r == RocksDbFileDataTrie_stored_chunks_count(file_trie, storage.chunks)
  IN
  /\ last' = Call("both.stored_chunks_count", <<>>, <<m.res, r.res>>)
  /\ UNCHANGED <<node, backend, file_trie, twin, storage, fs, uploaded, calls>>

BothGenerateProof(ids) ==
  LET m == InMemoryFileDataTrie_generate_proof(twin, ids)
      r == RocksDbFileDataTrie_generate_proof(file_trie, storage.chunks, ids)
  IN
  /\ last' = Call("both.generate_proof", <<ids>>, <<m.res, r.res>>)
  /\ UNCHANGED <<node, backend, file_trie, twin, storage, fs, uploaded, calls>>

BothDelete ==
  LET m == InMemoryFileDataTrie_delete(twin)
      r == RocksDbFileDataTrie_delete(file_trie, storage.chunks)
  IN
  /\ twin' = m.trie
  /\ file_trie' = r.trie
  /\ storage' = [storage EXCEPT !.chunks = r.chunks]
  /\ last' = Call("both.delete", <<>>, <<m.res, r.res>>)
  /\ UNCHANGED <<node, backend, fs, uploaded, calls>>

InitBoth == InitTrie /\ backend = "RocksDb"

NextBoth ==
  \/ \E i \in ChunkIds, d \in Chunks : BothWriteChunk(i, d)
  \/ \E i \in ChunkIds : BothGetChunk(i)
  \/ BothStoredChunksCount
  \/ \E ids \in SUBSET ChunkIds : BothGenerateProof(ids)
  \/ BothDelete

\* A fresh in-memory trie and a fresh durable trie given the same calls.
SpecBoth == InitBoth /\ [][NextBoth]_vars

\* ------------------------------------- the registry seen through its trait
\* Each returns [fs, st, res, out]: the registry after the call (fs for the
\* in-memory backend, st for the RocksDb one), the result and what it carries.
FileStorage_registered(b, f, st) ==
  IF b = "InMemory" THEN DOMAIN f.metadata ELSE DOMAIN st.metadata

\* The bucket-prefix index: bucket_prefix_map (in-memory), the keys of
\* BUCKET_PREFIX_COLUMN (durable), as (bucket id, file key) pairs.
FileStorage_bucket_index(b, f, st) ==
  IF b = "InMemory" THEN f.bucket_prefix_map ELSE st.bucket_prefix

FileStorage_get_metadata(b, f, st, key) ==
  IF b = "InMemory" THEN InMemoryFileStorage_get_metadata(f, key)
  ELSE RocksDbFileStorage_get_metadata(st, key)

FileStorage_get_chunk(b, f, st, key, i) ==
  IF b = "InMemory" THEN InMemoryFileStorage_get_chunk(f, key, i)
  ELSE RocksDbFileStorage_get_chunk(st, key, i)

FileStorage_stored_chunks_count(b, f, st, key) ==
  IF b = "InMemory" THEN InMemoryFileStorage_stored_chunks_count(f, key)
  ELSE RocksDbFileStorage_stored_chunks_count(st, key)

FileStorage_generate_proof(b, f, st, key, ids) ==
  IF b = "InMemory" THEN InMemoryFileStorage_generate_proof(f, key, ids)
  ELSE RocksDbFileStorage_generate_proof(st, key, ids)

FileStorage_insert_file(b, f, st, key, m) ==
  IF b = "InMemory"
    THEN LET r == InMemoryFileStorage_insert_file(f, key, m) IN
         [fs |-> r.fs, st |-> st, res |-> r.res]
    ELSE LET r == RocksDbFileStorage_insert_file(st, key, m) IN
         [fs |-> f, st |-> r.st, res |-> r.res]

FileStorage_insert_file_with_data(b, f, st, key, m, trie) ==
  IF b = "InMemory"
    THEN LET r == InMemoryFileStorage_insert_file_with_data(f, key, m, trie) IN
         [fs |-> r.fs, st |-> st, res |-> r.res]
    ELSE LET r == RocksDbFileStorage_insert_file_with_data(st, key, m, trie) IN
         [fs |-> f, st |-> r.st, res |-> r.res]

FileStorage_write_chunk(b, f, st, key, i, d) ==
  IF b = "InMemory"
    THEN LET r == InMemoryFileStorage_write_chunk(f, key, i, d) IN
         [fs |-> r.fs, st |-> st, res |-> r.res]
    ELSE LET r == RocksDbFileStorage_write_chunk(st, key, i, d) IN
         [fs |-> f, st |-> r.st, res |-> r.res]

FileStorage_delete_file(b, f, st, key) ==
  IF b = "InMemory"
    THEN LET r == InMemoryFileStorage_delete_file(f, key) IN
         [fs |-> r.fs, st |-> st, res |-> r.res]
    ELSE LET r == RocksDbFileStorage_delete_file(st, key) IN
         [fs |-> f, st |-> r.st, res |-> r.res]

FileStorage_delete_files_with_prefix(b, f, st, prefix, order) ==
  IF b = "InMemory"
    THEN LET r == InMemoryFileStorage_delete_files_with_prefix(f, prefix) IN
         [fs |-> r.fs, st |-> st, res |-> r.res]
    ELSE LET r == RocksDbFileStorage_delete_files_with_prefix(st, prefix, order) IN
         [fs |-> f, st |-> r.st, res |-> r.res]

\* The trie a caller hands to insert_file_with_data: a new trie (over the
\* registry's store, for the RocksDb backend) into which the chunks of C were
\* written in the order of their ids.
RECURSIVE WriteAll(_, _, _, _)
WriteAll(b, t, st, C) ==
  IF C = {} THEN [trie |-> t, chunks |-> st.chunks]
  ELSE LET p == CHOOSE q \in C : \A r \in C : q[1] <= r[1]
           w == FileDataTrie_write_chunk(b, t, st, p[1], p[2], TRUE)
       IN WriteAll(b, w.trie, [st EXCEPT !.chunks = w.chunks], C \ {p})

create_file_trie(b, st, C) ==
  WriteAll(b, IF b = "InMemory" THEN InMemoryFileDataTrie_new ELSE RocksDbFileDataTrie_new,
           st, C)

\* The orders in which a prefix iteration can yield the keys of K.
Orders(K) ==
  {o \in [1..Cardinality(K) -> K] : \A x, y \in 1..Cardinality(K) : x # y => o[x] # o[y]}

\* --------------------------------------------------- File Storage operations
Registered == FileStorage_registered(backend, fs, storage)

\* The chunks a storage request declares: the content its fingerprint is the
\* root of.
Declared(key) == key[2].fingerprint.c

InsertFile(m) ==
  LET key == file_key(m)
      r == FileStorage_insert_file(backend, fs, storage, key, m)
  IN
  /\ calls < MaxCalls
  /\ key \in Registered \/ Cardinality(Registered) < MaxFiles
  /\ fs' = r.fs
  /\ storage' = r.st
  /\ uploaded' = IF r.res = "Ok" THEN Put(uploaded, key, {}) ELSE Remove(uploaded, key)
  /\ calls' = calls + 1
  /\ last' = Call("insert_file", <<key>>, r.res)
  /\ UNCHANGED <<node, backend, twin, file_trie>>

InsertFileWithData(m, C) ==
  LET key == file_key(m)
      t == create_file_trie(backend, storage, C)
      r == FileStorage_insert_file_with_data(
             backend, fs, [storage EXCEPT !.chunks = t.chunks], key, m, t.trie)
  IN
  /\ calls < MaxCalls
  /\ key \in Registered \/ Cardinality(Registered) < MaxFiles
  /\ fs' = r.fs
  /\ storage' = r.st
  /\ uploaded' = Remove(uploaded, key)
  /\ calls' = calls + 1
  /\ last' = Call("insert_file_with_data", <<key>>, r.res)
  /\ UNCHANGED <<node, backend, twin, file_trie>>

WriteChunk(key, i, d) ==
  LET r == FileStorage_write_chunk(backend, fs, storage, key, i, d) IN
  /\ calls < MaxCalls
  /\ fs' = r.fs
  /\ storage' = r.st
  /\ uploaded' = IF key \in DOMAIN uploaded /\ <<i, d>> \in Declared(key) /\ i \notin uploaded[key]
                   THEN [uploaded EXCEPT ![key] = @ \cup {i}]
                   ELSE Remove(uploaded, key)
  /\ calls' = calls + 1
  /\ last' = Call("write_chunk", <<key, i>>, r.res)
  /\ UNCHANGED <<node, backend, twin, file_trie>>

GetMetadata(key) ==
  LET r == FileStorage_get_metadata(backend, fs, storage, key) IN
  /\ last' = Call("get_metadata", <<>>, r.res)
  /\ UNCHANGED <<node, backend, twin, file_trie, storage, fs, uploaded, calls>>

GetChunk(key, i) ==
  LET r == FileStorage_get_chunk(backend, fs, storage, key, i) IN
  /\ last' = Call("get_chunk", <<>>, r.res)
  /\ UNCHANGED <<node, backend, twin, file_trie, storage, fs, uploaded, calls>>

StoredChunksCount(key) ==
  LET r == FileStorage_stored_chunks_count(backend, fs, storage, key) IN
  /\ last' = Call("stored_chunks_count", <<>>, r.res)
  /\ UNCHANGED <<node, backend, twin, file_trie, storage, fs, uploaded, calls>>

GenerateProof(key, ids) ==
  LET r == FileStorage_generate_proof(backend, fs, storage, key, ids) IN
  /\ last' = Call("generate_proof", <<>>, r.res)
  /\ UNCHANGED <<node, backend, twin, file_trie, storage, fs, uploaded, calls>>

DeleteFile(key) ==
  LET r == FileStorage_delete_file(backend, fs, storage, key) IN
  /\ calls < MaxCalls
  /\ fs' = r.fs
  /\ storage' = r.st
  /\ uploaded' = Remove(uploaded, key)
  /\ calls' = calls + 1
  /\ last' = Call("delete_file", <<key>>, r.res)
  /\ UNCHANGED <<node, backend, twin, file_trie>>

DeleteFilesWithPrefix(prefix) ==
  \E order \in Orders(RocksDbFileStorage_keys_with_prefix(storage, prefix)) :
    LET r == FileStorage_delete_files_with_prefix(backend, fs, storage, prefix, order) IN
    /\ calls < MaxCalls
    /\ fs' = r.fs
    /\ storage' = r.st
    /\ uploaded' = [k \in {x \in DOMAIN uploaded : x[2].bucket_id # prefix} |-> uploaded[k]]
    /\ calls' = calls + 1
    /\ last' = Call("delete_files_with_prefix", <<prefix>>, r.res)
    /\ UNCHANGED <<node, backend, twin, file_trie>>

Init ==
  /\ backend \in Backends
  /\ file_trie = (IF backend = "InMemory" THEN InMemoryFileDataTrie_new
                  ELSE RocksDbFileDataTrie_new)
  /\ twin = InMemoryFileDataTrie_new
  /\ storage = EmptyStorage
  /\ fs = InMemoryFileStorage_new
  /\ uploaded = EmptyFcn
  /\ calls = 0
  /\ last = Call("new", <<>>, "Ok")
  /\ NodeIdle

Next ==
  \/ \E m \in Metas : InsertFile(m)
  \/ \E m \in Metas : \E n \in 1..chunks_count(m) :
        InsertFileWithData(m, {p \in m.fingerprint.c : p[1] < n})
  \/ \E key \in FileKeys, i \in ChunkIds, d \in Chunks : WriteChunk(key, i, d)
  \/ \E key \in FileKeys : GetMetadata(key)
  \/ \E key \in FileKeys, i \in ChunkIds : GetChunk(key, i)
  \/ \E key \in FileKeys : StoredChunksCount(key)
  \/ \E key \in FileKeys, ids \in SUBSET ChunkIds : GenerateProof(key, ids)
  \/ \E key \in FileKeys : DeleteFile(key)
  \/ \E prefix \in Buckets : DeleteFilesWithPrefix(prefix)

\* One File Storage of either backend, driven through its trait.
Spec == Init /\ [][Next]_vars

\* --------------------------------------- two tries written on their own
\* file_trie and twin are two File Data Tries of the same backend, the durable
\* ones over the same store; each is sent chunks in an order of its own.
\* uploaded keeps, for each, the chunks its write_chunk accepted, in order.
Range(o) == {o[x] : x \in DOMAIN o}

\* A trie into which the chunks of the sequence o are written one by one.
RECURSIVE WriteSeq(_, _, _, _)
WriteSeq(b, t, st, o) ==
  IF o = <<>> THEN [trie |-> t, chunks |-> st.chunks]
  ELSE LET w == FileDataTrie_write_chunk(b, t, st, Head(o)[1], Head(o)[2], TRUE)
       IN WriteSeq(b, w.trie, [st EXCEPT !.chunks = w.chunks], Tail(o))

FileDataTrie_new(b) ==
  IF b = "InMemory" THEN InMemoryFileDataTrie_new ELSE RocksDbFileDataTrie_new

OrderWriteChunk(i, d) ==
  LET r == FileDataTrie_write_chunk(backend, file_trie, storage, i, d, TRUE) IN
  /\ file_trie' = r.trie
  /\ storage' = [storage EXCEPT !.chunks = r.chunks]
  /\ uploaded' = IF r.res = "Ok"
                   THEN [uploaded EXCEPT !.file_trie = Append(@, <<i, d>>)]
                   ELSE uploaded
  /\ last' = Call("first.write_chunk", <<>>, r.res)
  /\ UNCHANGED <<node, backend, twin, fs, calls>>

OrderWriteChunkTwin(i, d) ==
  LET r == FileDataTrie_write_chunk(backend, twin, storage, i, d, TRUE) IN
  /\ twin' = r.trie
  /\ storage' = [storage EXCEPT !.chunks = r.chunks]
  /\ uploaded' = IF r.res = "Ok"
                   THEN [uploaded EXCEPT !.twin = Append(@, <<i, d>>)]
                   ELSE uploaded
  /\ last' = Call("second.write_chunk", <<>>, r.res)
  /\ UNCHANGED <<node, backend, file_trie, fs, calls>>

InitOrder ==
  /\ backend \in Backends
  /\ file_trie = FileDataTrie_new(backend)
  /\ twin = FileDataTrie_new(backend)
  /\ storage = EmptyStorage
  /\ fs = InMemoryFileStorage_new
  /\ uploaded = [file_trie |-> <<>>, twin |-> <<>>]
  /\ calls = 0
  /\ last = Call("new", <<>>, "Ok")
  /\ NodeIdle

NextOrder ==
  \/ \E i \in ChunkIds, d \in Chunks : OrderWriteChunk(i, d)
  \/ \E i \in ChunkIds, d \in Chunks : OrderWriteChunkTwin(i, d)

\* Two new File Data Tries of one backend, each written in its own order.
SpecOrder == InitOrder /\ [][NextOrder]_vars

\* ==================================================================== claims
\* The File Data Trie of the current state, read through its trait.
TrieRoot(t) == FileDataTrie_get_root(backend, t)
TrieCount(t, chunks) ==
  FileDataTrie_stored_chunks_count(backend, t, [storage EXCEPT !.chunks = chunks])
TrieChunk(t, chunks, i) ==
  FileDataTrie_get_chunk(backend, t, [storage EXCEPT !.chunks = chunks], i)

\* C1: on either backend, write_chunk(i, d') on a chunk id i that is already
\* stored (get_chunk(i) returns a chunk) fails with FileChunkAlreadyExists,
\* whether or not d' is the stored data, and leaves the root,
\* stored_chunks_count() and what get_chunk(i) returns unchanged.
C1_WriteOnce ==
  \A i \in ChunkIds, d \in Chunks :
    LET before == TrieChunk(file_trie, storage.chunks, i)
        w == FileDataTrie_write_chunk(backend, file_trie, storage, i, d, TRUE)
    IN before.res = "Ok" =>
         /\ w.res = "FileChunkAlreadyExists"
         /\ TrieRoot(w.trie) = TrieRoot(file_trie)
         /\ TrieCount(w.trie, w.chunks) = TrieCount(file_trie, storage.chunks)
         /\ TrieChunk(w.trie, w.chunks, i) = before

\* A durable trie has just refused, with FileChunkAlreadyExists, a second write
\* of a stored chunk id with data other than the stored one.
C1_Witness ==
  /\ backend = "RocksDb"
  /\ last.op = "trie.write_chunk"
  /\ last.res = "FileChunkAlreadyExists"
  /\ TrieChunk(file_trie, storage.chunks, last.args[1]).res = "Ok"
  /\ TrieChunk(file_trie, storage.chunks, last.args[1]).val # last.args[2]

\* C2: round trip.  In every reachable state of a trie of either backend, for
\* every chunk id i not currently stored, a write_chunk(i, d) that returns Ok
\* followed by get_chunk(i) returns exactly d, and every chunk j # i stored
\* before still returns its data.
C2_RoundTrip ==
  \A i \in ChunkIds, d \in Chunks :
    LET w == FileDataTrie_write_chunk(backend, file_trie, storage, i, d, TRUE) IN
    (TrieChunk(file_trie, storage.chunks, i).res # "Ok" /\ w.res = "Ok") =>
      /\ TrieChunk(w.trie, w.chunks, i) = [res |-> "Ok", val |-> d]
      /\ \A j \in ChunkIds \ {i} :
           TrieChunk(file_trie, storage.chunks, j).res = "Ok" =>
             TrieChunk(w.trie, w.chunks, j) = TrieChunk(file_trie, storage.chunks, j)

\* A durable trie has accepted a write_chunk and cannot read any chunk back.
C2_Witness ==
  /\ backend = "RocksDb"
  /\ last.op = "trie.write_chunk"
  /\ last.res = "Ok"
  /\ TrieChunk(file_trie, storage.chunks, last.args[1]).res = "FailedToGetFileChunk"

\* C3: for a file registered with insert_file whose fingerprint is the root of
\* the trie of its k declared chunks, writing those k distinct chunks through
\* write_chunk returns FileIncomplete for each of the first k - 1 writes and
\* FileComplete on the k-th, on both backends.  uploaded[key] holds the ids
\* written so far in such a sequence.
C3_CompleteOnLastWrite ==
  \A key \in DOMAIN uploaded :
    \A p \in Declared(key) :
      p[1] \notin uploaded[key] =>
        FileStorage_write_chunk(backend, fs, storage, key, p[1], p[2]).res
          = (IF Cardinality(uploaded[key]) + 1 = chunks_count(key[2])
               THEN "FileComplete" ELSE "FileIncomplete")

\* The durable registry has answered a write of such a sequence with an error.
C3_Witness ==
  /\ backend = "RocksDb"
  /\ last.op = "write_chunk"
  /\ last.args[1] \in DOMAIN uploaded
  /\ last.args[2] \in uploaded[last.args[1]]
  /\ last.res \notin {"FileComplete", "FileIncomplete"}

\* Whether a key has the trie its operations work on: an entry of file_data
\* (in-memory), a partial-root pointer for its fingerprint (durable).
FileHasTrie(b, f, st, key) ==
  IF b = "InMemory" THEN key \in DOMAIN f.file_data
  ELSE /\ key \in DOMAIN st.metadata
       /\ DeserializeMetadata(st.metadata[key]).fingerprint \in DOMAIN st.roots

\* The trie of a registered file: its entry of file_data (in-memory), the
\* trie opened at the partial root stored for its fingerprint (durable).
FileTrie(b, f, st, key) ==
  IF b = "InMemory" THEN f.file_data[key]
  ELSE RocksDbFileDataTrie_from_existing(
         st.roots[DeserializeMetadata(st.metadata[key]).fingerprint])

FileRoot(b, f, st, key) == FileDataTrie_get_root(b, FileTrie(b, f, st, key))

FileCount(b, f, st, key) ==
  FileDataTrie_stored_chunks_count(b, FileTrie(b, f, st, key), st)

\* C4: write_chunk returns FileComplete only when, after the write,
\* stored_chunks_count equals metadata.chunks_count() and the trie root equals
\* metadata.fingerprint, on both backends.
C4_CompleteOnlyIfFingerprint ==
  \A key \in FileKeys, i \in ChunkIds, d \in Chunks :
    LET w == FileStorage_write_chunk(backend, fs, storage, key, i, d) IN
    w.res = "FileComplete" =>
      /\ FileCount(backend, w.fs, w.st, key) = [res |-> "Ok", val |-> chunks_count(key[2])]
      /\ FileRoot(backend, w.fs, w.st, key) = key[2].fingerprint

\* The durable registry has just reported FileComplete for a file whose root
\* is not its fingerprint.
C4_Witness ==
  /\ backend = "RocksDb"
  /\ last.op = "write_chunk"
  /\ last.res = "FileComplete"
  /\ FileRoot(backend, fs, storage, last.args[1]) # last.args[1][2].fingerprint

\* C5: generate_proof(key, ids) returns a proof only for a complete file.  It
\* fails with FileDoesNotExist for an unregistered key, with IncompleteFile
\* when the file's stored_chunks_count differs from metadata.chunks_count(),
\* and with FingerprintAndStoredFileMismatch when the count matches and the
\* trie root differs from metadata.fingerprint, whatever the trie would answer
\* to the proof request; on both backends.
C5_ProofOnlyForCompleteFile ==
  \A key \in FileKeys, ids \in SUBSET ChunkIds :
    LET r == FileStorage_generate_proof(backend, fs, storage, key, ids)
        k == chunks_count(key[2])
    IN
    IF key \notin Registered THEN r.res = "FileDoesNotExist"
    ELSE FileHasTrie(backend, fs, storage, key) =>
      LET cnt == FileCount(backend, fs, storage, key)
          root == FileRoot(backend, fs, storage, key)
      IN
      /\ (cnt.res = "Ok" /\ cnt.val # k) => r.res = "IncompleteFile"
      /\ (cnt.res = "Ok" /\ cnt.val = k /\ root # key[2].fingerprint)
           => r.res = "FingerprintAndStoredFileMismatch"
      /\ r.res = "Ok" => (cnt.res = "Ok" /\ cnt.val = k /\ root = key[2].fingerprint)

\* generate_proof has just answered FingerprintAndStoredFileMismatch, and a
\* registered file holds as many chunks as declared under another root.
C5_Witness ==
  /\ last.op = "generate_proof"
  /\ last.res = "FingerprintAndStoredFileMismatch"
  /\ \E key \in Registered :
       /\ FileCount(backend, fs, storage, key).val = chunks_count(key[2])
       /\ FileRoot(backend, fs, storage, key) # key[2].fingerprint

\* The chunk ids stored in a file's trie: those get_chunk reads back.
FileStoredIds(b, f, st, key) ==
  {i \in ChunkIds : FileDataTrie_get_chunk(b, FileTrie(b, f, st, key), st, i).res = "Ok"}

\* generate_proof over the ids S of a registered file does what C6 says, at
\* the trie level and, for a complete file, at the registry level.
ProofOver(key, S) ==
  LET t == FileTrie(backend, fs, storage, key)
      pr == FileDataTrie_generate_proof(backend, t, storage, S)
      fkp == FileStorage_generate_proof(backend, fs, storage, key, S)
      pairs == {<<i, FileDataTrie_get_chunk(backend, t, storage, i).val>> : i \in S}
  IN
  /\ pr.res = "Ok"
  /\ pr.fingerprint = FileDataTrie_get_root(backend, t)
  /\ Proven(pr) = pairs
  /\ fkp.res \in {"Ok", "IncompleteFile", "FingerprintAndStoredFileMismatch"}
  /\ fkp.res = "Ok" =>
       /\ fkp.out.file_metadata = FileStorage_get_metadata(backend, fs, storage, key).out
       /\ fkp.out.file_metadata = key[2]
       /\ fkp.out.fingerprint = pr.fingerprint
       /\ Proven(fkp.out) = pairs

\* C6: generate_proof over any subset S of the chunk ids currently stored in a
\* trie succeeds, the proof's fingerprint is get_root() at the time of the
\* call, and the leaves recovered from the proof are exactly the (chunk id,
\* data) pairs of S; the registry-level proof also carries the file's metadata
\* unchanged.
C6_ProofOfAnySubset ==
  \A key \in Registered :
    FileHasTrie(backend, fs, storage, key) =>
      \A S \in SUBSET FileStoredIds(backend, fs, storage, key) : ProofOver(key, S)

\* generate_proof has just failed to build the compact proof, and a registered
\* file holds a chunk while the proof over no chunk id is refused for it.
C6_Witness ==
  /\ last.op = "generate_proof"
  /\ last.res = "FailedToGenerateCompactProof"
  /\ \E key \in Registered :
       /\ FileStoredIds(backend, fs, storage, key) # {}
       /\ ~ProofOver(key, {})

\* What remains of it: generate_proof over any subset that is not empty.
ProofOfAnyNonEmptySubset ==
  \A key \in Registered :
    FileHasTrie(backend, fs, storage, key) =>
      \A S \in SUBSET FileStoredIds(backend, fs, storage, key) : S # {} => ProofOver(key, S)

\* A call that took the registry from (fs, storage) to (f2, st2) left the file
\* under key as it was: its metadata, its trie's root and what get_chunk
\* returns for every chunk id.
FileUnchanged(key, f2, st2) ==
  /\ FileStorage_get_metadata(backend, f2, st2, key)
       = FileStorage_get_metadata(backend, fs, storage, key)
  /\ FileHasTrie(backend, fs, storage, key) =>
       /\ FileHasTrie(backend, f2, st2, key)
       /\ FileRoot(backend, f2, st2, key) = FileRoot(backend, fs, storage, key)
  /\ \A i \in ChunkIds :
       FileStorage_get_chunk(backend, f2, st2, key, i)
         = FileStorage_get_chunk(backend, fs, storage, key, i)

\* C7: insert_file and insert_file_with_data on a key that is already
\* registered fail with FileAlreadyExists and leave the file's metadata, its
\* trie / partial-root pointer and its stored chunks unchanged, on both
\* backends.
C7_DuplicateInsertRejected ==
  \A m \in Metas :
    LET key == file_key(m) IN
    key \in Registered =>
      /\ LET r == FileStorage_insert_file(backend, fs, storage, key, m) IN
           r.res = "FileAlreadyExists" /\ FileUnchanged(key, r.fs, r.st)
      /\ \A n \in 1..chunks_count(m) :
           LET t == create_file_trie(backend, storage, {p \in m.fingerprint.c : p[1] < n})
               r == FileStorage_insert_file_with_data(
                      backend, fs, [storage EXCEPT !.chunks = t.chunks], key, m, t.trie)
           IN r.res = "FileAlreadyExists" /\ FileUnchanged(key, r.fs, r.st)

\* The durable registry has answered Ok to an insert_file that leaves the key
\* with an empty trie while chunks its file declares are in the store.
C7_Witness ==
  /\ backend = "RocksDb"
  /\ last.op = "insert_file"
  /\ last.res = "Ok"
  /\ FileRoot(backend, fs, storage, last.args[1]) = EmptyRoot
  /\ \E p \in Declared(last.args[1]) : ValueNode(p) \in storage.chunks

\* C8: write_chunk(key, i, d') for a registered key whose chunk id i is
\* already stored returns the error FileChunkAlreadyExists, and no other error
\* variant, on both backends.
C8_DuplicateChunkError ==
  \A key \in Registered :
    FileHasTrie(backend, fs, storage, key) =>
      \A i \in FileStoredIds(backend, fs, storage, key), d \in Chunks :
        FileStorage_write_chunk(backend, fs, storage, key, i, d).res = "FileChunkAlreadyExists"

\* The durable registry has just answered the second delivery of a stored
\* chunk with FailedToInsertFileChunk.
C8_Witness ==
  /\ backend = "RocksDb"
  /\ last.op = "write_chunk"
  /\ last.res = "FailedToInsertFileChunk"
  /\ last.args[1] \in Registered
  /\ FileHasTrie(backend, fs, storage, last.args[1])
  /\ last.args[2] \in FileStoredIds(backend, fs, storage, last.args[1])

\* C9: after delete_files_with_prefix(b) returns Ok, every file that was
\* registered with metadata.bucket_id = b is unregistered (get_metadata returns
\* None and get_chunk fails), and every file registered under another bucket
\* id keeps its metadata and has all of its chunks still readable; on both
\* backends.
C9_DeleteBucket ==
  \A b \in Buckets :
    \A order \in Orders(RocksDbFileStorage_keys_with_prefix(storage, b)) :
      LET r == FileStorage_delete_files_with_prefix(backend, fs, storage, b, order) IN
      r.res = "Ok" =>
        \A key \in Registered :
          IF key[2].bucket_id = b
            THEN /\ FileStorage_get_metadata(backend, r.fs, r.st, key)
                      = [res |-> "Ok", out |-> NoMetadata]
                 /\ \A i \in ChunkIds :
                      FileStorage_get_chunk(backend, r.fs, r.st, key, i).res # "Ok"
            ELSE /\ FileStorage_get_metadata(backend, r.fs, r.st, key)
                      = FileStorage_get_metadata(backend, fs, storage, key)
                 /\ \A i \in ChunkIds :
                      FileStorage_get_chunk(backend, fs, storage, key, i).res = "Ok" =>
                        FileStorage_get_chunk(backend, r.fs, r.st, key, i)
                          = FileStorage_get_chunk(backend, fs, storage, key, i)

\* The durable registry has answered Ok to delete_files_with_prefix(b) and a
\* file of bucket b is still registered.
C9_Witness ==
  /\ backend = "RocksDb"
  /\ last.op = "delete_files_with_prefix"
  /\ last.res = "Ok"
  /\ \E key \in Registered : key[2].bucket_id = last.args[1]

\* C10: after delete_file(key) returns Ok for a registered key,
\* get_metadata(key) returns Ok(None) and get_chunk(key, i) fails, with
\* FileDoesNotExist or FileChunkDoesNotExist, for every chunk id i that was
\* stored; on both backends.
C10_DeleteFile ==
  \A key \in Registered :
    LET r == FileStorage_delete_file(backend, fs, storage, key) IN
    r.res = "Ok" =>
      /\ FileStorage_get_metadata(backend, r.fs, r.st, key) = [res |-> "Ok", out |-> NoMetadata]
      /\ \A i \in ChunkIds :
           FileStorage_get_chunk(backend, fs, storage, key, i).res = "Ok" =>
             FileStorage_get_chunk(backend, r.fs, r.st, key, i).res
               \in {"FileDoesNotExist", "FileChunkDoesNotExist"}

\* The durable registry has just deleted a registered file: the key is
\* unregistered, and get_chunk fails for a chunk its file declares and the
\* store still holds.
C10_Witness ==
  /\ backend = "RocksDb"
  /\ last.op = "delete_file"
  /\ last.res = "Ok"
  /\ last.args[1] \notin Registered
  /\ \E p \in Declared(last.args[1]) :
       /\ ValueNode(p) \in storage.chunks
       /\ FileStorage_get_chunk(backend, fs, storage, last.args[1], p[1]).res = "FileDoesNotExist"

\* C11: File Data Trie delete().  Whatever chunk ids the trie stores
\* (contiguous from 0 or not), after delete() returns Ok stored_chunks_count()
\* is 0, get_root() is the canonical empty-trie root and get_chunk(i) fails
\* with FileChunkDoesNotExist for every id i that was stored; on both backends.
C11_DeleteEmptiesTrie ==
  LET del == FileDataTrie_delete(backend, file_trie, storage) IN
  del.res = "Ok" =>
    /\ TrieCount(del.trie, del.chunks) = [res |-> "Ok", val |-> 0]
    /\ TrieRoot(del.trie) = EmptyRoot
    /\ \A i \in ChunkIds :
         TrieChunk(file_trie, storage.chunks, i).res = "Ok" =>
           TrieChunk(del.trie, del.chunks, i).res = "FileChunkDoesNotExist"

\* A durable trie has answered Ok to delete() and still stores a chunk under
\* a root that is not the empty one.
C11_Witness ==
  /\ backend = "RocksDb"
  /\ last.op = "trie.delete"
  /\ last.res = "Ok"
  /\ TrieRoot(file_trie) # EmptyRoot
  /\ \E i \in ChunkIds : TrieChunk(file_trie, storage.chunks, i).res = "Ok"

\* C12: on either backend, a write_chunk that returns Ok increases
\* stored_chunks_count() by exactly 1 and yields a root different from the
\* root before the write; a write_chunk that fails changes neither.
C12_WriteCountsOne ==
  \A i \in ChunkIds, d \in Chunks :
    LET before == TrieCount(file_trie, storage.chunks)
        w == FileDataTrie_write_chunk(backend, file_trie, storage, i, d, TRUE)
        after == TrieCount(w.trie, w.chunks)
    IN
    IF w.res = "Ok"
      THEN /\ before.res = "Ok" => after = [res |-> "Ok", val |-> before.val + 1]
           /\ TrieRoot(w.trie) # TrieRoot(file_trie)
      ELSE /\ after = before
           /\ TrieRoot(w.trie) = TrieRoot(file_trie)

\* A durable trie has accepted a write_chunk and cannot count its chunks.
C12_Witness ==
  /\ backend = "RocksDb"
  /\ last.op = "trie.write_chunk"
  /\ last.res = "Ok"
  /\ TrieCount(file_trie, storage.chunks).res = "FailedToConstructTrieIter"

\* C13: a newly created File Data Trie has the canonical empty-trie root, the
\* same for the in-memory and the durable realization, and stores 0 chunks;
\* a file just registered with insert_file points at that empty root, so
\* get_chunk fails with FileChunkDoesNotExist on every chunk id.
C13_NewTrieIsEmpty ==
  /\ InMemoryFileDataTrie_get_root(InMemoryFileDataTrie_new) = EmptyRoot
  /\ RocksDbFileDataTrie_get_root(RocksDbFileDataTrie_new) = EmptyRoot
  /\ InMemoryFileDataTrie_stored_chunks_count(InMemoryFileDataTrie_new)
       = [res |-> "Ok", val |-> 0]
  /\ RocksDbFileDataTrie_stored_chunks_count(RocksDbFileDataTrie_new, storage.chunks)
       = [res |-> "Ok", val |-> 0]
  /\ \A m \in Metas :
       LET key == file_key(m)
           r == FileStorage_insert_file(backend, fs, storage, key, m)
       IN r.res = "Ok" =>
            /\ FileHasTrie(backend, r.fs, r.st, key)
            /\ FileRoot(backend, r.fs, r.st, key) = EmptyRoot
            /\ FileCount(backend, r.fs, r.st, key) = [res |-> "Ok", val |-> 0]
            /\ \A i \in ChunkIds :
                 FileStorage_get_chunk(backend, r.fs, r.st, key, i).res
                   = "FileChunkDoesNotExist"

\* insert_file has just registered a file over a store that holds trie nodes:
\* the file's trie is empty and no chunk of it can be read.
C13_Witness ==
  /\ last.op = "insert_file"
  /\ last.res = "Ok"
  /\ storage.chunks # {}
  /\ FileCount(backend, fs, storage, last.args[1]) = [res |-> "Ok", val |-> 0]
  /\ \A i \in ChunkIds :
       FileStorage_get_chunk(backend, fs, storage, last.args[1], i).res
         = "FileChunkDoesNotExist"

\* C14: for a key that is not registered, get_metadata returns Ok(None), never
\* an error, while get_chunk, write_chunk, stored_chunks_count and
\* generate_proof return FileDoesNotExist, and the call leaves the registry as
\* it was; on both backends.
C14_UnregisteredKey ==
  \A key \in FileKeys \ Registered :
    /\ FileStorage_get_metadata(backend, fs, storage, key) = [res |-> "Ok", out |-> NoMetadata]
    /\ FileStorage_stored_chunks_count(backend, fs, storage, key).res = "FileDoesNotExist"
    /\ \A i \in ChunkIds :
         /\ FileStorage_get_chunk(backend, fs, storage, key, i).res = "FileDoesNotExist"
         /\ \A d \in Chunks :
              LET w == FileStorage_write_chunk(backend, fs, storage, key, i, d) IN
              w.res = "FileDoesNotExist" /\ w.fs = fs /\ w.st = storage
    /\ \A ids \in SUBSET ChunkIds :
         FileStorage_generate_proof(backend, fs, storage, key, ids).res = "FileDoesNotExist"

\* write_chunk has just been refused with FileDoesNotExist for a key that is
\* not registered, while another file is registered.
C14_Witness ==
  /\ last.op = "write_chunk"
  /\ last.res = "FileDoesNotExist"
  /\ last.args[1] \notin Registered
  /\ Registered # {}

\* commit(new_root) on the trie t over the store `chunks`, with a failing
\* write, does what C15 says: it returns an error, the root stays the
\* pre-commit root, the store is untouched, the overlay still holds every
\* pending change, and a second commit(new_root) whose write succeeds leaves
\* the trie and the store as a first successful commit would have.
CommitFailureIsRetryable(t, chunks, new_root) ==
  LET failed == RocksDbFileDataTrie_commit(t, chunks, new_root, FALSE)
      retry == RocksDbFileDataTrie_commit(failed.trie, failed.chunks, new_root, TRUE)
  IN
  /\ failed.res = "FailedToWriteToStorage"
  /\ failed.trie.root = t.root
  /\ failed.chunks = chunks
  /\ failed.trie.db = t.db
  /\ retry = RocksDbFileDataTrie_commit(t, chunks, new_root, TRUE)

\* C15: durable commit failure.  If the batch write fails during
\* commit(new_root), commit returns an error, the root field is still the
\* pre-commit root and the overlay still holds every pending insertion and
\* removal, so that commit(new_root) can be called again and persist the same
\* changes.  Checked for the commit write_chunk makes after its insert, and
\* for a commit called on the trie as it stands.
C15_CommitFailureKeepsOverlay ==
  /\ \A i \in ChunkIds, d \in Chunks :
       RocksDbFileDataTrie_get_chunk(file_trie, storage.chunks, i).res = "FileChunkDoesNotExist" =>
         LET p == RocksDbFileDataTrie_write_chunk_pending(file_trie, i, d) IN
         CommitFailureIsRetryable(p.trie, storage.chunks, p.new_root)
  /\ \A new_root \in CommitRoots \ {file_trie.root} :
       CommitFailureIsRetryable(file_trie, storage.chunks, new_root)

\* The commit of a write_chunk has just failed: the overlay is empty, and the
\* nodes of the chunk it was to persist are not in the store.
C15_Witness ==
  /\ last.op = "trie.write_chunk"
  /\ last.res = "FailedToPersistChanges"
  /\ file_trie.db = EmptyDb
  /\ ValueNode(<<last.args[1], last.args[2]>>) \notin storage.chunks

\* C16: durable commit(new_root) with new_root equal to the trie's current
\* root is a no-op: it returns Ok, writes nothing to the store and leaves the
\* root field unchanged, whether or not a write would succeed.
C16_CommitSameRootIsNoOp ==
  \A ioOk \in BOOLEAN :
    LET c == RocksDbFileDataTrie_commit(file_trie, storage.chunks, file_trie.root, ioOk) IN
    /\ c.res = "Ok"
    /\ c.chunks = storage.chunks
    /\ c.trie.root = file_trie.root

\* commit has just been called with the root the trie has, answered Ok, and
\* the changes pending in the overlay are still pending.
C16_Witness ==
  /\ last.op = "trie.commit"
  /\ last.res = "Ok"
  /\ last.args[1] = file_trie.root
  /\ file_trie.db # EmptyDb

\* C17: pairing invariant.  In every reachable registry state a file key has
\* metadata if and only if it has its File Data Trie (in-memory) or a
\* partial-root pointer stored for its fingerprint (durable), and no operation
\* hits the 'metadata without trie / partial root' panic.
C17_Pairing ==
  \A key \in FileKeys :
    /\ key \in Registered <=> FileHasTrie(backend, fs, storage, key)
    /\ FileStorage_insert_file(backend, fs, storage, key, key[2]).res # "Panic"
    /\ \A i \in ChunkIds :
         /\ FileStorage_get_chunk(backend, fs, storage, key, i).res # "Panic"
         /\ \A d \in Chunks :
              FileStorage_write_chunk(backend, fs, storage, key, i, d).res # "Panic"
    /\ \A ids \in SUBSET ChunkIds :
         FileStorage_generate_proof(backend, fs, storage, key, ids).res # "Panic"

\* get_chunk on the durable registry has just panicked: a registered file has
\* no partial-root pointer for its fingerprint.
C17_Witness ==
  /\ backend = "RocksDb"
  /\ last.op = "get_chunk"
  /\ last.res = "Panic"
  /\ \E key \in Registered : ~FileHasTrie(backend, fs, storage, key)

\* C18: bucket index invariant.  In every reachable registry state of either
\* backend the bucket-prefix index contains bucket_id || file_key exactly when
\* file_key is registered with metadata.bucket_id = bucket_id: the inserts add
\* the entry, delete_file and delete_files_with_prefix remove it.
C18_BucketIndex ==
  FileStorage_bucket_index(backend, fs, storage)
    = {<<FileStorage_get_metadata(backend, fs, storage, key).out.bucket_id, key>> :
         key \in Registered}

\* delete_file has just unregistered a file on the in-memory registry and the
\* index still holds its entry.
C18_Witness ==
  /\ backend = "InMemory"
  /\ last.op = "delete_file"
  /\ last.res = "Ok"
  /\ last.args[1] \notin Registered
  /\ <<last.args[1][2].bucket_id, last.args[1]>>
       \in FileStorage_bucket_index(backend, fs, storage)

\* C19: backend equivalence at trie level.  After any sequence of write_chunk,
\* get_chunk, stored_chunks_count, generate_proof and delete calls applied to
\* a fresh in-memory trie and to a fresh durable trie (no storage I/O
\* failure), the next call returns the same result on both (the same Ok value
\* or the same error variant) and get_root() agrees before and after it.
C19_BackendEquivalence ==
  /\ InMemoryFileDataTrie_get_root(twin) = RocksDbFileDataTrie_get_root(file_trie)
  /\ InMemoryFileDataTrie_stored_chunks_count(twin)
       = RocksDbFileDataTrie_stored_chunks_count(file_trie, storage.chunks)
  /\ \A i \in ChunkIds :
       /\ InMemoryFileDataTrie_get_chunk(twin, i)
            = RocksDbFileDataTrie_get_chunk(file_trie, storage.chunks, i)
       /\ \A d \in Chunks :
            LET m == InMemoryFileDataTrie_write_chunk(twin, i, d)
                r == RocksDbFileDataTrie_write_chunk(file_trie, storage.chunks, i, d, TRUE)
            IN /\ m.res = r.res
               /\ InMemoryFileDataTrie_get_root(m.trie) = RocksDbFileDataTrie_get_root(r.trie)
  /\ \A ids \in SUBSET ChunkIds :
       InMemoryFileDataTrie_generate_proof(twin, ids)
         = RocksDbFileDataTrie_generate_proof(file_trie, storage.chunks, ids)
  /\ LET m == InMemoryFileDataTrie_delete(twin)
         r == RocksDbFileDataTrie_delete(file_trie, storage.chunks)
     IN /\ m.res = r.res
        /\ InMemoryFileDataTrie_get_root(m.trie) = RocksDbFileDataTrie_get_root(r.trie)

\* The two tries have just answered the same call differently.
C19_Witness ==
  /\ last.op \in {"both.write_chunk", "both.get_chunk", "both.stored_chunks_count",
                  "both.generate_proof", "both.delete"}
  /\ last.res[1] # last.res[2]

\* C20: durable delete() commits.  After delete() returns Ok on a durable
\* trie, the removal of every chunk leaf has been written to the store and
\* the overlay holds no pending change, so a new trie instance opened over
\* the same store at the pre-delete root can read none of the deleted chunks.
C20_DurableDeleteCommits ==
  backend = "RocksDb" =>
    LET del == RocksDbFileDataTrie_delete(file_trie, storage.chunks)
        reopened == RocksDbFileDataTrie_from_existing(RocksDbFileDataTrie_get_root(file_trie))
    IN
    del.res = "Ok" =>
      /\ del.trie.db = EmptyDb
      /\ \A i \in ChunkIds :
           LET before == RocksDbFileDataTrie_get_chunk(file_trie, storage.chunks, i) IN
           before.res = "Ok" =>
             /\ ValueNode(<<i, before.val>>) \notin del.chunks
             /\ RocksDbFileDataTrie_get_chunk(reopened, del.chunks, i).res # "Ok"

\* A durable trie has answered Ok to delete() and is at the empty root, while
\* the removals are pending in its overlay and the store holds the nodes.
C20_Witness ==
  /\ backend = "RocksDb"
  /\ last.op = "trie.delete"
  /\ last.res = "Ok"
  /\ RocksDbFileDataTrie_get_root(file_trie) = EmptyRoot
  /\ file_trie.db # EmptyDb
  /\ storage.chunks # {}

\* The chunks of its declared content that the file under key has been sent
\* since insert_file registered it.
Uploaded(key) == {p \in Declared(key) : p[1] \in uploaded[key]}

\* C21: durable registry.  After every write_chunk that returns Ok, the
\* partial-root pointer stored for the file's fingerprint is the root of the
\* trie that holds exactly the chunks written to that file so far, so that
\* chunks written in separate write_chunk calls are all readable through
\* get_chunk afterwards.
C21_PartialRootTracksWrites ==
  backend = "RocksDb" =>
    \A key \in DOMAIN uploaded :
      \A p \in Declared(key) \ Uploaded(key) :
        LET w == RocksDbFileStorage_write_chunk(storage, key, p[1], p[2])
            written == Uploaded(key) \cup {p}
        IN
        w.res \in {"FileComplete", "FileIncomplete"} =>
          /\ key[2].fingerprint \in DOMAIN w.st.roots
          /\ w.st.roots[key[2].fingerprint] = RootHash(written)
          /\ \A q \in written :
               RocksDbFileStorage_get_chunk(w.st, key, q[1]) = [res |-> "Ok", out |-> q[2]]

\* The durable registry has just answered Ok to a write_chunk of a file in
\* upload, and the partial root stored for its fingerprint is not the root of
\* the chunks written to that file.
C21_Witness ==
  /\ backend = "RocksDb"
  /\ last.op = "write_chunk"
  /\ last.res \in {"FileComplete", "FileIncomplete"}
  /\ last.args[1] \in DOMAIN uploaded
  /\ last.args[2] \in uploaded[last.args[1]]
  /\ storage.roots[last.args[1][2].fingerprint] # RootHash(Uploaded(last.args[1]))

\* C22: stored_chunks_count(key) for a registered key returns the number of
\* chunks written to that file so far (0 right after insert_file, j after j
\* writes), whether or not the file is complete, on both backends.
C22_StoredChunksCount ==
  \A key \in DOMAIN uploaded :
    FileStorage_stored_chunks_count(backend, fs, storage, key)
      = [res |-> "Ok", out |-> Cardinality(uploaded[key])]

\* stored_chunks_count has just failed on the durable registry, where a file
\* in upload has a chunk that get_chunk reads back.
C22_Witness ==
  /\ backend = "RocksDb"
  /\ last.op = "stored_chunks_count"
  /\ last.res = "FailedToConstructTrieIter"
  /\ \E key \in DOMAIN uploaded :
       /\ uploaded[key] # {}
       /\ \A q \in Uploaded(key) :
            RocksDbFileStorage_get_chunk(storage, key, q[1]) = [res |-> "Ok", out |-> q[2]]
       /\ RocksDbFileStorage_stored_chunks_count(storage, key).res = "FailedToConstructTrieIter"

\* C23: durable commit(new_root) with new_root different from the current
\* root.  The root field of the trie changes only in a step that answered Ok,
\* drained the overlay and wrote its batch to the store: every overlay entry
\* with a reference count <= 0 deleted, every other entry put.  A step whose
\* write failed leaves the root and the store as they were.
C23_RootAdvancesAfterWrite ==
  [][LET pending == IF last'.op = "trie.write_chunk"
                      THEN RocksDbFileDataTrie_write_chunk_pending(
                             file_trie, last'.args[1], last'.args[2]).trie.db
                      ELSE file_trie.db
         tx == RocksDbFileDataTrie_changes(pending)
     IN
     /\ file_trie'.root # file_trie.root =>
          /\ last'.res = "Ok"
          /\ file_trie'.db = EmptyDb
          /\ last'.op \in {"trie.write_chunk", "trie.commit"} =>
               storage'.chunks = (storage.chunks \ tx.dels) \cup tx.puts
     /\ last'.res \in {"FailedToWriteToStorage", "FailedToPersistChanges"} =>
          /\ file_trie'.root = file_trie.root
          /\ storage'.chunks = storage.chunks
    ]_vars

\* The root field of a durable trie is the empty root after delete(), the
\* overlay holds a removal that no batch carried to the store, and the node it
\* removes is still in the chunk column.
C23_Witness ==
  /\ last.op = "trie.delete"
  /\ last.res = "Ok"
  /\ file_trie.root = EmptyRoot
  /\ \E n \in DOMAIN file_trie.db : file_trie.db[n] < 0 /\ n \in storage.chunks

\* C24: durable trie.  After every write_chunk that returns Ok the overlay is
\* empty and every node reachable from the root is in the chunk column, so a
\* new instance opened with from_existing at that root reads every stored
\* chunk; also when the write is made on an instance after delete().
C24_WriteLeavesTrieOnDisk ==
  backend = "RocksDb" =>
    \A i \in ChunkIds, d \in Chunks :
      LET w == RocksDbFileDataTrie_write_chunk(file_trie, storage.chunks, i, d, TRUE)
          reopened == RocksDbFileDataTrie_from_existing(RocksDbFileDataTrie_get_root(w.trie))
      IN
      w.res = "Ok" =>
        /\ w.trie.db = EmptyDb
        /\ NodesOf(w.trie.root.c) \subseteq w.chunks
        /\ \A p \in w.trie.root.c :
             RocksDbFileDataTrie_get_chunk(reopened, w.chunks, p[1])
               = [res |-> "Ok", val |-> p[2]]

\* A durable trie has answered Ok to a write_chunk and its overlay is empty,
\* while a node of the trie under its root is missing from the chunk column.
C24_Witness ==
  /\ backend = "RocksDb"
  /\ last.op = "trie.write_chunk"
  /\ last.res = "Ok"
  /\ file_trie.db = EmptyDb
  /\ ~(NodesOf(file_trie.root.c) \subseteq storage.chunks)

\* C25: delete_file(key) on any registered key returns Ok and unregisters the
\* key, whether the file is complete or not (a file abandoned in the middle of
\* its upload can be deleted); on both backends.
C25_DeleteRegisteredFile ==
  \A key \in Registered :
    LET r == FileStorage_delete_file(backend, fs, storage, key) IN
    /\ r.res = "Ok"
    /\ FileStorage_get_metadata(backend, r.fs, r.st, key) = [res |-> "Ok", out |-> NoMetadata]

\* delete_file has just failed on a file in the middle of its upload, and the
\* file is still registered.
C25_Witness ==
  /\ last.op = "delete_file"
  /\ last.res = "FailedToDeleteFileChunk"
  /\ last.args[1] \in Registered
  /\ FileRoot(backend, fs, storage, last.args[1]) # last.args[1][2].fingerprint

\* C26: every chunk stored for a registered file has an id in
\* [0, chunks_count), and a write_chunk with an id >= chunks_count does not
\* add a chunk to the file.
C26_ChunkIdsInRange ==
  \A key \in Registered :
    FileHasTrie(backend, fs, storage, key) =>
      /\ FileStoredIds(backend, fs, storage, key) \subseteq 0..(chunks_count(key[2]) - 1)
      /\ \A i \in ChunkIds, d \in Chunks :
           i >= chunks_count(key[2]) =>
             LET w == FileStorage_write_chunk(backend, fs, storage, key, i, d) IN
             /\ FileHasTrie(backend, w.fs, w.st, key)
             /\ FileStoredIds(backend, w.fs, w.st, key) = FileStoredIds(backend, fs, storage, key)

\* write_chunk has just been called with a chunk id that is not below the
\* chunks_count of its file, and get_chunk reads that chunk from the file.
C26_Witness ==
  /\ last.op = "write_chunk"
  /\ last.args[1] \in Registered
  /\ last.args[2] >= chunks_count(last.args[1][2])
  /\ FileStorage_get_chunk(backend, fs, storage, last.args[1], last.args[2]).res = "Ok"

\* What the file under key B answers in the registry state (f2, st2) is what
\* it answers now: its metadata, its stored_chunks_count and every get_chunk,
\* and no operation on B panics.
Independent(B, f2, st2) ==
  /\ FileStorage_get_metadata(backend, f2, st2, B)
       = FileStorage_get_metadata(backend, fs, storage, B)
  /\ FileStorage_stored_chunks_count(backend, f2, st2, B)
       = FileStorage_stored_chunks_count(backend, fs, storage, B)
  /\ \A i \in ChunkIds :
       /\ FileStorage_get_chunk(backend, f2, st2, B, i)
            = FileStorage_get_chunk(backend, fs, storage, B, i)
       /\ \A d \in Chunks :
            FileStorage_write_chunk(backend, f2, st2, B, i, d).res # "Panic"
  /\ \A ids \in SUBSET ChunkIds :
       FileStorage_generate_proof(backend, f2, st2, B, ids).res # "Panic"

\* C27: file independence.  For two distinct registered file keys A and B, no
\* operation addressed to A (insert_file, insert_file_with_data, write_chunk,
\* delete_file) changes B's metadata, B's stored_chunks_count or the result of
\* any get_chunk(B, i), nor makes an operation on B panic; also when the two
\* files have the same fingerprint.
C27_FileIndependence ==
  \A A \in Registered, B \in Registered :
    A # B =>
      /\ LET r == FileStorage_insert_file(backend, fs, storage, A, A[2]) IN
           Independent(B, r.fs, r.st)
      /\ \A n \in 1..chunks_count(A[2]) :
           LET t == create_file_trie(backend, storage, {p \in Declared(A) : p[1] < n})
               r == FileStorage_insert_file_with_data(
                      backend, fs, [storage EXCEPT !.chunks = t.chunks], A, A[2], t.trie)
           IN Independent(B, r.fs, r.st)
      /\ \A i \in ChunkIds, d \in Chunks :
           LET r == FileStorage_write_chunk(backend, fs, storage, A, i, d) IN
           Independent(B, r.fs, r.st)
      /\ LET r == FileStorage_delete_file(backend, fs, storage, A) IN
           Independent(B, r.fs, r.st)

\* The durable registry holds two files of the same fingerprint, the last call
\* was a write_chunk to one of them, and the chunk it wrote is read through
\* the other, which was never sent it.
C27_Witness ==
  /\ backend = "RocksDb"
  /\ last.op = "write_chunk"
  /\ last.res \in {"FileComplete", "FileIncomplete"}
  /\ \E B \in Registered :
       /\ B # last.args[1]
       /\ last.args[1] \in Registered
       /\ B[2].fingerprint = last.args[1][2].fingerprint
       /\ B \in DOMAIN uploaded
       /\ last.args[2] \notin uploaded[B]
       /\ FileStorage_get_chunk(backend, fs, storage, B, last.args[2]).res = "Ok"

\* C28: a write_chunk of the registry that returns an error, whichever
\* variant, leaves the file as it was: the same stored_chunks_count, the same
\* root and the same readable chunks; on both backends.
C28_FailedWriteChangesNothing ==
  \A key \in Registered, i \in ChunkIds, d \in Chunks :
    LET w == FileStorage_write_chunk(backend, fs, storage, key, i, d) IN
    (FileHasTrie(backend, fs, storage, key)
       /\ w.res \notin {"FileComplete", "FileIncomplete", "Panic"}) =>
      /\ FileUnchanged(key, w.fs, w.st)
      /\ FileCount(backend, w.fs, w.st, key) = FileCount(backend, fs, storage, key)

\* write_chunk has just returned FingerprintAndStoredFileMismatch, and the
\* chunk it was given is read back from the file.
C28_Witness ==
  /\ last.op = "write_chunk"
  /\ last.res = "FingerprintAndStoredFileMismatch"
  /\ last.args[1] \in Registered
  /\ FileStorage_get_chunk(backend, fs, storage, last.args[1], last.args[2]).res = "Ok"

\* C29: completeness is stable.  Once write_chunk has returned FileComplete
\* for a key, no later write_chunk on that key changes the file's root or its
\* stored_chunks_count, and generate_proof over chunk ids the file stores
\* keeps succeeding.  Checked in every state that follows a FileComplete, for
\* every write_chunk that can come next.
C29_CompleteIsStable ==
  (last.op = "write_chunk" /\ last.res = "FileComplete") =>
    LET key == last.args[1]
        stored == FileStoredIds(backend, fs, storage, key)
    IN
    \A i \in ChunkIds, d \in Chunks :
      LET w == FileStorage_write_chunk(backend, fs, storage, key, i, d) IN
      /\ FileRoot(backend, w.fs, w.st, key) = FileRoot(backend, fs, storage, key)
      /\ FileCount(backend, w.fs, w.st, key) = FileCount(backend, fs, storage, key)
      /\ \A ids \in (SUBSET stored) \ {{}} :
           FileStorage_generate_proof(backend, w.fs, w.st, key, ids).res = "Ok"

\* The in-memory registry has just returned FileComplete for a file, its root
\* is the file's fingerprint, and it accepts one more chunk: the next
\* write_chunk answers FileIncomplete.
C29_Witness ==
  /\ backend = "InMemory"
  /\ last.op = "write_chunk"
  /\ last.res = "FileComplete"
  /\ FileRoot(backend, fs, storage, last.args[1]) = last.args[1][2].fingerprint
  /\ \E i \in ChunkIds, d \in Chunks :
       FileStorage_write_chunk(backend, fs, storage, last.args[1], i, d).res = "FileIncomplete"

TrieReadOps == {"trie.get_chunk", "trie.stored_chunks_count", "trie.generate_proof"}

\* C31: trie-level generate_proof(ids) fails with FileChunkDoesNotExist and
\* returns no proof whenever at least one requested chunk id is not stored in
\* the trie; and generate_proof, get_chunk and stored_chunks_count never change
\* the trie's root, its overlay or the stored chunks.
C31_ProofNeedsEveryChunk ==
  /\ [](\A ids \in SUBSET ChunkIds :
          (\E i \in ids : i \notin IdsOf(TrieRoot(file_trie).c)) =>
            LET pr == FileDataTrie_generate_proof(backend, file_trie, storage, ids) IN
            /\ pr.res = "FileChunkDoesNotExist"
            /\ pr.proof = {})
  /\ [][last'.op \in TrieReadOps => UNCHANGED <<file_trie, storage>>]_vars

\* generate_proof has just been asked for a chunk id the trie's root does not
\* cover, and has failed with FailedToGetFileChunk.
C31_Witness ==
  /\ last.op = "trie.generate_proof"
  /\ last.res = "FailedToGetFileChunk"
  /\ \E i \in last.args[1] : i \notin IdsOf(TrieRoot(file_trie).c)

\* ===================================================== the upload tasks
\* The BSP and MSP upload tasks (node/src/tasks) over one File Storage. A
\* handler works on n = [fs, st, file_transfer, queue]: the registry of either
\* backend, the keys registered in the file transfer service and the requests
\* queued in the blockchain service. It returns [n, res, outcome]: the node
\* after it, what the handler returned, and what write_chunk returned ("-" when
\* it was not called).

\* f applied to the value of x: x is evaluated once, before f uses it.
ApplyTo(x, f(_)) == CHOOSE r \in {f(v) : v \in {x}} : TRUE

\* The proof a client builds for the chunks with ids I of the content D.
FileKeyProof_of(D, I) ==
  [fingerprint |-> RootHash(D),
   proof |-> UNION {TrieGetRecorded(RootHash(D), i) : i \in I}]

\* FileKeyProof::proven: the proof is verified against its fingerprint, which
\* needs the root node; a verified proof yields the chunks it proves.
FileKeyProof_proven(pr) ==
  IF pr.fingerprint.c # {} /\ pr.fingerprint \notin pr.proof
    THEN [res |-> "Err", proven |-> {}]
    ELSE [res |-> "Ok", proven |-> Proven(pr)]

\* The proofs a RemoteUploadRequest for `key` may carry: for the declared
\* content or for a content whose last chunk differs, over any set of chunk
\* ids; the proof over no chunk lacks the root node and does not verify.
FileKeyProofs(key) ==
  LET k == chunks_count(key[2]) IN
  {FileKeyProof_of(Content(k, d), I) : d \in Chunks, I \in SUBSET (0..(k - 1))}

\* FileTransferService::register_new_file_peer / unregister_file, as the tasks
\* use them: unregistering a key that is not registered is an error.
FileTransfer_register_new_file_peer(ft, key) == ft \cup {key}

FileTransfer_unregister_file(ft, key) ==
  [file_transfer |-> ft \ {key}, res |-> IF key \in ft THEN "Ok" ELSE "Err"]

\* ConfirmStoringRequest::new / RespondStorageRequest::new(key, Accept).
ConfirmStoringRequest_new(key) == [file_key |-> key, try_count |-> 0]

RespondStorageRequest_new(key) == [file_key |-> key, response |-> "Accept", try_count |-> 0]

\* The outcomes of write_chunk after which the handlers go on with the upload.
Benign == {"FileComplete", "FileIncomplete", "FileChunkAlreadyExists"}

\* BspUploadFileTask::unvolunteer_file: unregister from the file transfer
\* service, then delete_file; the errors of both are only logged.
BspUploadFileTask_unvolunteer_file(b, n, key) ==
  LET Deleted(d) ==
        [n EXCEPT !.file_transfer = FileTransfer_unregister_file(@, key).file_transfer,
                  !.fs = d.fs, !.st = d.st]
  IN ApplyTo(FileStorage_delete_file(b, n.fs, n.st, key), Deleted)

\* on_file_complete that queues the request whether or not the key was still
\* registered in the file transfer service.
BspUploadFileTask_on_file_complete_unregistered(n, key) ==
  [n |-> [n EXCEPT !.file_transfer = @ \ {key},
                   !.queue = Append(@, ConfirmStoringRequest_new(key))],
   res |-> "Ok"]

\* BspUploadFileTask::on_file_complete: unregister the file, then queue a
\* ConfirmStoringRequest; a key that was not registered ends the handler.
BspUploadFileTask_on_file_complete(n, key) ==
  LET u == FileTransfer_unregister_file(n.file_transfer, key) IN
  IF u.res # "Ok" THEN [n |-> n, res |-> "Err"]
  ELSE [n |-> [n EXCEPT !.file_transfer = u.file_transfer,
                        !.queue = Append(@, ConfirmStoringRequest_new(key))],
        res |-> "Ok"]

\* EventHandler<RemoteUploadRequest> for BspUploadFileTask.
BspUploadFileTask_handle_remote_upload_request(b, n, event) ==
  LET key == event.file_key
      pv == FileKeyProof_proven(event.file_key_proof)
      chunk == CHOOSE p \in pv.proven : TRUE
      Written(w) ==
        LET m == [n EXCEPT !.fs = w.fs, !.st = w.st] IN
        IF w.res = "Panic" THEN [n |-> m, res |-> "Panic", outcome |-> w.res]
        ELSE IF w.res = "FileComplete"
          THEN LET c == BspUploadFileTask_on_file_complete(m, key) IN
               [n |-> c.n, res |-> c.res, outcome |-> w.res]
        ELSE IF w.res \in Benign THEN [n |-> m, res |-> "Ok", outcome |-> w.res]
        ELSE [n |-> BspUploadFileTask_unvolunteer_file(b, m, key),
              res |-> "Err", outcome |-> w.res]
  IN
  IF pv.res # "Ok" \/ Cardinality(pv.proven) # 1
    THEN [n |-> BspUploadFileTask_unvolunteer_file(b, n, key), res |-> "Err", outcome |-> "-"]
  ELSE ApplyTo(FileStorage_write_chunk(b, n.fs, n.st, key, chunk[1], chunk[2]), Written)

\* The part of BspUploadFileTask::handle_new_storage_request_event that runs
\* once the capacity is there and the BSP may volunteer, with the cleanup of
\* handle_event: register the file for upload, insert_file, then the volunteer
\* extrinsic; a failure of either unvolunteers the file.
BspUploadFileTask_handle_new_storage_request(b, n, m, volunteerOk) ==
  LET key == file_key(m)
      reg == [n EXCEPT !.file_transfer = FileTransfer_register_new_file_peer(@, key)]
      Inserted(ins) ==
        LET done == [reg EXCEPT !.fs = ins.fs, !.st = ins.st] IN
        IF ins.res = "Panic" THEN [n |-> done, res |-> "Panic", outcome |-> "-"]
        ELSE IF ins.res # "Ok"
          THEN [n |-> BspUploadFileTask_unvolunteer_file(b, done, key),
                res |-> "Err", outcome |-> "-"]
        ELSE IF ~volunteerOk
          THEN [n |-> BspUploadFileTask_unvolunteer_file(b, done, key),
                res |-> "Ok", outcome |-> "-"]
        ELSE [n |-> done, res |-> "Ok", outcome |-> "-"]
  IN ApplyTo(FileStorage_insert_file(b, n.fs, n.st, key, m), Inserted)

\* MspUploadFileTask::unregister_file: as unvolunteer_file.
MspUploadFileTask_unregister_file(b, n, key) ==
  LET Deleted(d) ==
        [n EXCEPT !.file_transfer = FileTransfer_unregister_file(@, key).file_transfer,
                  !.fs = d.fs, !.st = d.st]
  IN ApplyTo(FileStorage_delete_file(b, n.fs, n.st, key), Deleted)

\* MspUploadFileTask::on_file_complete: unregister the file, then queue the
\* acceptance of the storage request.
MspUploadFileTask_on_file_complete(n, key) ==
  LET u == FileTransfer_unregister_file(n.file_transfer, key) IN
  IF u.res # "Ok" THEN [n |-> n, res |-> "Err"]
  ELSE [n |-> [n EXCEPT !.file_transfer = u.file_transfer,
                        !.queue = Append(@, RespondStorageRequest_new(key))],
        res |-> "Ok"]

\* EventHandler<RemoteUploadRequest> for MspUploadFileTask. extOk: the
\* extrinsic that rejects the storage request is sent and succeeds; when it
\* does not, the handler returns before it unregisters the file.
MspUploadFileTask_handle_remote_upload_request(b, n, event, extOk) ==
  LET key == event.file_key
      pv == FileKeyProof_proven(event.file_key_proof)
      md == FileStorage_get_metadata(b, n.fs, n.st, key)
      chunk == CHOOSE p \in pv.proven : TRUE
      Reject(x, o) ==
        IF extOk THEN [n |-> MspUploadFileTask_unregister_file(b, x, key),
                       res |-> "Err", outcome |-> o]
        ELSE [n |-> x, res |-> "Err", outcome |-> o]
      Written(w) ==
        LET m == [n EXCEPT !.fs = w.fs, !.st = w.st] IN
        IF w.res = "Panic" THEN [n |-> m, res |-> "Panic", outcome |-> w.res]
        ELSE IF w.res = "FileComplete"
          THEN LET c == MspUploadFileTask_on_file_complete(m, key) IN
               [n |-> c.n, res |-> c.res, outcome |-> w.res]
        ELSE IF w.res \in Benign THEN [n |-> m, res |-> "Ok", outcome |-> w.res]
        ELSE Reject(m, w.res)
  IN
  IF md.res # "Ok" THEN [n |-> n, res |-> "Err", outcome |-> "-"]
  ELSE IF pv.res # "Ok" \/ Cardinality(pv.proven) # 1 THEN Reject(n, "-")
  ELSE ApplyTo(FileStorage_write_chunk(b, n.fs, n.st, key, chunk[1], chunk[2]), Written)

\* The part of MspUploadFileTask::handle_new_storage_request_event that runs
\* for a bucket of this MSP once the capacity is there, with the cleanup of
\* handle_event: register the file for upload, then insert_file.
MspUploadFileTask_handle_new_storage_request(b, n, m) ==
  LET key == file_key(m)
      reg == [n EXCEPT !.file_transfer = FileTransfer_register_new_file_peer(@, key)]
      Inserted(ins) ==
        LET done == [reg EXCEPT !.fs = ins.fs, !.st = ins.st] IN
        IF ins.res = "Panic" THEN [n |-> done, res |-> "Panic", outcome |-> "-"]
        ELSE IF ins.res # "Ok"
          THEN [n |-> MspUploadFileTask_unregister_file(b, done, key),
                res |-> "Err", outcome |-> "-"]
        ELSE [n |-> done, res |-> "Ok", outcome |-> "-"]
  IN ApplyTo(FileStorage_insert_file(b, n.fs, n.st, key, m), Inserted)

\* ------------------------------------------------ the upload task's events
Providers == {"bsp", "msp"}

\* The node as the handlers see it.
Node == [fs |-> fs, st |-> storage, file_transfer |-> file_transfer, queue |-> queue]

RemoteUploadRequests ==
  {[file_key |-> key, file_key_proof |-> pr] : key \in FileKeys, pr \in UNION {FileKeyProofs(k) : k \in FileKeys}}

\* The handler of `op` has run on `args` and left r.
Handled(op, args, r) ==
  /\ calls < MaxCalls
  /\ fs' = r.n.fs
  /\ storage' = r.n.st
  /\ file_transfer' = r.n.file_transfer
  /\ queue' = r.n.queue
  /\ calls' = calls + 1
  /\ last' = [op |-> op, args |-> args, res |-> r.res, outcome |-> r.outcome]
  /\ UNCHANGED <<backend, file_trie, twin, uploaded, capacity_queue, tasks, locks, chain>>

BspNewStorageRequest(m, volunteerOk) ==
  /\ chain.provider = "bsp"
  /\ file_key(m) \in Registered \/ Cardinality(Registered) < MaxFiles
  /\ \E r \in {BspUploadFileTask_handle_new_storage_request(backend, Node, m, volunteerOk)} :
       Handled("bsp.new_storage_request", <<file_key(m)>>, r)

BspRemoteUploadRequest(event) ==
  /\ chain.provider = "bsp"
  /\ \E r \in {BspUploadFileTask_handle_remote_upload_request(backend, Node, event)} :
       Handled("bsp.remote_upload_request", <<event.file_key, FileKeyProof_proven(event.file_key_proof)>>, r)

MspNewStorageRequest(m) ==
  /\ chain.provider = "msp"
  /\ file_key(m) \in Registered \/ Cardinality(Registered) < MaxFiles
  /\ \E r \in {MspUploadFileTask_handle_new_storage_request(backend, Node, m)} :
       Handled("msp.new_storage_request", <<file_key(m)>>, r)

MspRemoteUploadRequest(event, extOk) ==
  /\ chain.provider = "msp"
  /\ \E r \in {MspUploadFileTask_handle_remote_upload_request(backend, Node, event, extOk)} :
       Handled("msp.remote_upload_request", <<event.file_key, FileKeyProof_proven(event.file_key_proof)>>, r)

InitUpload ==
  /\ backend \in Backends
  /\ file_trie = (IF backend = "InMemory" THEN InMemoryFileDataTrie_new
                  ELSE RocksDbFileDataTrie_new)
  /\ twin = InMemoryFileDataTrie_new
  /\ storage = EmptyStorage
  /\ fs = InMemoryFileStorage_new
  /\ uploaded = EmptyFcn
  /\ calls = 0
  /\ last = [op |-> "new", args |-> <<>>, res |-> "Ok", outcome |-> "-"]
  /\ file_transfer = {}
  /\ queue = <<>>
  /\ capacity_queue = 0
  /\ tasks = EmptyFcn
  /\ locks = [file_storage |-> {}, capacity_queue |-> {}]
  /\ chain \in {[provider |-> p] : p \in Providers}

NextUpload ==
  \/ \E m \in Metas, volunteerOk \in BOOLEAN : BspNewStorageRequest(m, volunteerOk)
  \/ \E event \in RemoteUploadRequests : BspRemoteUploadRequest(event)
  \/ \E m \in Metas : MspNewStorageRequest(m)
  \/ \E event \in RemoteUploadRequests, extOk \in BOOLEAN : MspRemoteUploadRequest(event, extOk)

\* A BSP's or an MSP's upload task, handling one event at a time.
SpecUpload == InitUpload /\ [][NextUpload]_vars

\* ------------------------------------------------------ upload task claims
\* What the RemoteUploadRequest handler of the node's provider does with
\* `event` from the current state.
HandleRemoteUploadRequest(event, extOk) ==
  IF chain.provider = "bsp"
    THEN BspUploadFileTask_handle_remote_upload_request(backend, Node, event)
    ELSE MspUploadFileTask_handle_remote_upload_request(backend, Node, event, extOk)

\* The event delivers, with a proof that verifies, exactly the chunk p.
Delivers(event, p) ==
  FileKeyProof_proven(event.file_key_proof) = [res |-> "Ok", proven |-> {p}]

\* The chunks of `key` that get_chunk reads back from the registry [f, st].
Readable(f, st, key) ==
  {<<i, FileStorage_get_chunk(backend, f, st, key, i).out>> :
     i \in {j \in ChunkIds : FileStorage_get_chunk(backend, f, st, key, j).res = "Ok"}}

\* The event delivers a valid chunk of a registered file that is still being
\* uploaded, and the file's trie holds that chunk already.
DuplicateDelivery(event) ==
  LET key == event.file_key IN
  /\ key \in Registered
  /\ key \in file_transfer
  /\ FileHasTrie(backend, fs, storage, key)
  /\ \E p \in Declared(key) :
       /\ Delivers(event, p)
       /\ p[1] \in FileStoredIds(backend, fs, storage, key)

\* C32: in the BSP and MSP RemoteUploadRequest handlers, the delivery of a
\* valid chunk whose id is already stored is benign with either backend: the
\* handler returns Ok, the file is not unvolunteered or unregistered and stays
\* registered in the file storage, and the chunks stored before stay readable.
C32_DuplicateChunkIsBenign ==
  \A event \in RemoteUploadRequests, extOk \in BOOLEAN :
    DuplicateDelivery(event) =>
      LET r == HandleRemoteUploadRequest(event, extOk)
          key == event.file_key
      IN
      /\ r.res = "Ok"
      /\ key \in r.n.file_transfer
      /\ key \in FileStorage_registered(backend, r.n.fs, r.n.st)
      /\ Readable(fs, storage, key) \subseteq Readable(r.n.fs, r.n.st, key)

\* A handler has just been delivered a chunk that its file's trie held already,
\* has got FailedToInsertFileChunk from the durable write_chunk, and has
\* unregistered the file from the file transfer service.
C32_Witness ==
  /\ backend = "RocksDb"
  /\ last.op \in {"bsp.remote_upload_request", "msp.remote_upload_request"}
  /\ last.outcome = "FailedToInsertFileChunk"
  /\ last.res = "Err"
  /\ last.args[2].res = "Ok"
  /\ last.args[2].proven \subseteq Declared(last.args[1])
  /\ last.args[1] \notin file_transfer

\* C33: the BSP RemoteUploadRequest handler calls write_chunk only when the
\* file-key proof verifies and proves exactly one chunk; otherwise no chunk is
\* written, the file is unvolunteered (unregistered from the file transfer
\* service and deleted from the file storage) and the handler returns an error.
C33_OnlyOneProvenChunkIsWritten ==
  \A event \in RemoteUploadRequests :
    LET r == BspUploadFileTask_handle_remote_upload_request(backend, Node, event)
        pv == FileKeyProof_proven(event.file_key_proof)
        key == event.file_key
    IN
    IF pv.res = "Ok" /\ Cardinality(pv.proven) = 1
      THEN r.outcome # "-"
      ELSE /\ r.outcome = "-"
           /\ r.res = "Err"
           /\ \A k \in FileKeys : Readable(r.n.fs, r.n.st, k) \subseteq Readable(fs, storage, k)
           /\ key \notin r.n.file_transfer
           /\ key \notin FileStorage_registered(backend, r.n.fs, r.n.st)

\* The BSP handler has just been given a proof that does not prove exactly one
\* chunk, for a file that was being uploaded: it has written nothing and
\* returned an error, and the file is still registered in the file storage.
C33_Witness ==
  /\ last.op = "bsp.remote_upload_request"
  /\ last.args[2].res # "Ok" \/ Cardinality(last.args[2].proven) # 1
  /\ last.outcome = "-"
  /\ last.res = "Err"
  /\ last.args[1] \notin file_transfer
  /\ last.args[1] \in Registered

\* C34: the BSP upload task queues a ConfirmStoringRequest for K, and
\* unregisters K from the file transfer service, only as the reaction to a
\* write_chunk on K that returned FileComplete, and at most once per registered
\* upload of K: the request is queued by a step that takes K's registration
\* away. FileIncomplete and error outcomes queue nothing.
C34_ConfirmQueuedOnFileComplete ==
  [][chain.provider = "bsp" =>
       /\ last'.outcome # "FileComplete" => queue' = queue
       /\ queue' # queue =>
            /\ last'.op = "bsp.remote_upload_request"
            /\ last'.res = "Ok"
            /\ queue' = Append(queue, ConfirmStoringRequest_new(last'.args[1]))
            /\ last'.args[1] \in file_transfer
            /\ last'.args[1] \notin file_transfer']_vars

\* The BSP handler has just written the last chunk of a file, got FileComplete,
\* unregistered the file and queued its ConfirmStoringRequest.
C34_Witness ==
  /\ chain.provider = "bsp"
  /\ last.op = "bsp.remote_upload_request"
  /\ last.outcome = "FileComplete"
  /\ last.res = "Ok"
  /\ queue = <<ConfirmStoringRequest_new(last.args[1])>>
  /\ last.args[1] \notin file_transfer
  /\ Cardinality(Declared(last.args[1])) = 2

\* ============================================ confirming stored files (BSP)
MAX_CONFIRM_STORING_REQUEST_TRY_COUNT == 3

\* ConfirmStoringRequest::increment_try_count.
ConfirmStoringRequest_increment_try_count(req) == [req EXCEPT !.try_count = @ + 1]

\* Retry that drops a request as soon as its try count reaches the limit.
Retry_dropping_at_limit(req) ==
  LET again == ConfirmStoringRequest_increment_try_count(req) IN
  IF again.try_count >= MAX_CONFIRM_STORING_REQUEST_TRY_COUNT
    THEN [requeue |-> <<>>, dropped |-> {again}]
    ELSE [requeue |-> <<again>>, dropped |-> {}]

\* What the handler does with a request that failed: the try count of a clone
\* is incremented; the clone is queued again unless the count now exceeds
\* MAX_CONFIRM_STORING_REQUEST_TRY_COUNT, in which case the request is dropped.
Retry(req) ==
  LET again == ConfirmStoringRequest_increment_try_count(req) IN
  IF again.try_count > MAX_CONFIRM_STORING_REQUEST_TRY_COUNT
    THEN [requeue |-> <<>>, dropped |-> {again}]
    ELSE [requeue |-> <<again>>, dropped |-> {}]

\* Retry of every request of `reqs`, in order: what is queued again, what is
\* dropped.
RECURSIVE RetryAll(_)
RetryAll(reqs) ==
  IF reqs = <<>> THEN [requeue |-> <<>>, dropped |-> {}]
  ELSE LET h == Retry(Head(reqs))
           t == RetryAll(Tail(reqs))
       IN [requeue |-> h.requeue \o t.requeue, dropped |-> h.dropped \cup t.dropped]

\* EventHandler<ProcessConfirmStoringRequest> for BspUploadFileTask, on the
\* requests of the event. Its inputs from outside the file storage:
\*   early   the handler returns before its first loop (the forest root write
\*           lock was taken already, or the BSP's id cannot be queried);
\*   qfail   the file keys for which the query of the chunks to prove fails;
\*   ids     the chunks the runtime asks to prove;
\*   late    the forest proof cannot be generated, after the second loop.
\* It returns the requests it queued again (in the order of the calls), those
\* it dropped, the file keys it put into the bsp_confirm_storing extrinsic and
\* the requests that were neither: those of a handler that returned early.
BspUploadFileTask_handle_process_confirm_storing_request(b, f, st, reqs, early, qfail, ids, late) ==
  LET QueryFails(req) == req.file_key \in qfail
      Queried(req) == ~QueryFails(req)
      ProofOk(req) ==
        /\ FileStorage_generate_proof(b, f, st, req.file_key, ids).res = "Ok"
        /\ FileStorage_get_metadata(b, f, st, req.file_key).res = "Ok"
        /\ FileStorage_get_metadata(b, f, st, req.file_key).out # NoMetadata
      ProofFails(req) == ~ProofOk(req)
      with_chunks == SelectSeq(reqs, Queried)
      first == RetryAll(SelectSeq(reqs, QueryFails))
      second == RetryAll(SelectSeq(with_chunks, ProofFails))
      proved == SelectSeq(with_chunks, ProofOk)
      requeue == first.requeue \o second.requeue
      dropped == first.dropped \cup second.dropped
  IN
  IF early
    THEN [requeue |-> <<>>, dropped |-> {}, included |-> {}, lost |-> Range(reqs), res |-> "Err"]
  ELSE IF proved = <<>>
    THEN [requeue |-> requeue, dropped |-> dropped, included |-> {}, lost |-> {}, res |-> "Err"]
  ELSE IF late
    THEN [requeue |-> requeue, dropped |-> dropped, included |-> {},
          lost |-> Range(proved), res |-> "Err"]
  ELSE [requeue |-> requeue, dropped |-> dropped,
        included |-> {req.file_key : req \in Range(proved)}, lost |-> {}, res |-> "Ok"]

\* The blockchain service takes the first k queued requests into a
\* ProcessConfirmStoringRequest event and the BSP task handles it; the requests
\* the handler queues again go to the back of the queue.
ProcessConfirmStoringRequest(k, early, qfail, ids, late) ==
  /\ chain.provider = "bsp"
  /\ k \in 1..Len(queue)
  /\ \E r \in {BspUploadFileTask_handle_process_confirm_storing_request(
                 backend, fs, storage, SubSeq(queue, 1, k), early, qfail, ids, late)} :
       /\ queue' = SubSeq(queue, k + 1, Len(queue)) \o r.requeue
       /\ chain' = [chain EXCEPT !.included = @ \cup r.included,
                                 !.dropped = @ \cup {req.file_key : req \in r.dropped},
                                 !.lost = @ \cup {req.file_key : req \in r.lost}]
       /\ last' = [op |-> "bsp.process_confirm_storing_request", args |-> <<k>>,
                   res |-> r.res, outcome |-> "-"]
  /\ UNCHANGED <<backend, file_trie, twin, storage, fs, uploaded, calls,
                 file_transfer, capacity_queue, tasks, locks>>

\* A node that has handled nothing yet.
NewNode ==
  [fs |-> InMemoryFileStorage_new, st |-> EmptyStorage, file_transfer |-> {}, queue |-> <<>>]

\* A BSP that has volunteered for the one-chunk file and has been sent its
\* chunk: the file is complete and its ConfirmStoringRequest is queued.
AfterFirstUpload(b) ==
  LET m == Metadata("b1", 1)
      n1 == BspUploadFileTask_handle_new_storage_request(b, NewNode, m, TRUE).n
  IN BspUploadFileTask_handle_remote_upload_request(
       b, n1, [file_key |-> file_key(m),
               file_key_proof |-> FileKeyProof_of(m.fingerprint.c, {0})]).n

InitConfirm ==
  /\ backend \in Backends
  /\ file_trie = (IF backend = "InMemory" THEN InMemoryFileDataTrie_new
                  ELSE RocksDbFileDataTrie_new)
  /\ twin = InMemoryFileDataTrie_new
  /\ uploaded = EmptyFcn
  /\ calls = 0
  /\ last = [op |-> "new", args |-> <<>>, res |-> "Ok", outcome |-> "-"]
  /\ \E n \in {NewNode, AfterFirstUpload(backend)} :
       /\ storage = n.st
       /\ fs = n.fs
       /\ file_transfer = n.file_transfer
       /\ queue = n.queue
  /\ capacity_queue = 0
  /\ tasks = EmptyFcn
  /\ locks = [file_storage |-> {}, capacity_queue |-> {}]
  /\ chain = [provider |-> "bsp", included |-> {}, dropped |-> {}, lost |-> {}]

ProcessConfirm ==
  \E k \in 1..Len(queue), early \in BOOLEAN, ids \in (SUBSET ChunkIds) \ {{}}, late \in BOOLEAN :
    \E qfail \in SUBSET {queue[i].file_key : i \in 1..k} :
      ProcessConfirmStoringRequest(k, early, qfail, ids, late)

NextConfirm ==
  \/ \E m \in Metas, volunteerOk \in BOOLEAN : BspNewStorageRequest(m, volunteerOk)
  \/ \E event \in RemoteUploadRequests : BspRemoteUploadRequest(event)
  \/ ProcessConfirm

\* A BSP's upload task with the processing of its ConfirmStoringRequests.
SpecConfirm == InitConfirm /\ [][NextConfirm]_vars

\* The blockchain service goes on emitting ProcessConfirmStoringRequest events
\* while requests are queued.
SpecConfirmLive == SpecConfirm /\ WF_vars(ProcessConfirm)

\* =========================== the BSP's handlers running side by side
\* Each event is handled by a task of its own; the tasks share the file
\* storage behind a tokio RwLock. tasks maps a task id to
\*   [kind, stage, key, arg, mode, ops, pc, res, then]
\* kind: the event; stage: "main" or "unvolunteer"; key, arg: what its File
\* Storage calls are about; mode: the lock it takes; ops: the calls it still
\* makes under that lock; pc: where it is (acquire, call, in_call, release,
\* react); res: what its calls returned; then: what the handler does after a
\* successful call (new storage request), the request it processes (confirm).
MaxTasks == 2

Mutating == {"insert_file", "write_chunk", "delete_file"}

\* RwLock::read / write with a lock that lets everyone in.
RwLock_can_acquire_always(holders, mode) == TRUE

\* RwLock::read().await / write().await return once no writer holds the lock
\* and, for write, no reader does.
RwLock_can_acquire(holders, mode) ==
  IF mode = "write" THEN holders = {}
  ELSE \A h \in holders : h[2] = "read"

\* The task of unvolunteer_file(key): the key is unregistered from the file
\* transfer service by the step that creates it; delete_file is called under
\* the write lock.
UnvolunteerTask(kind, key) ==
  [kind |-> kind, stage |-> "unvolunteer", key |-> key, arg |-> <<>>, mode |-> "write", ops |-> <<"delete_file">>,
   pc |-> "acquire", res |-> "-", then |-> "done"]

\* The File Storage call `op` of task tk on the registry [f, st].
RegistryCall(b, f, st, tk, op) ==
  CASE op = "insert_file" -> FileStorage_insert_file(b, f, st, tk.key, tk.arg)
    [] op = "write_chunk" -> FileStorage_write_chunk(b, f, st, tk.key, tk.arg[1], tk.arg[2])
    [] op = "delete_file" -> FileStorage_delete_file(b, f, st, tk.key)
    [] op = "generate_proof" ->
         [fs |-> f, st |-> st, res |-> FileStorage_generate_proof(b, f, st, tk.key, tk.arg).res]
    [] op = "get_metadata" ->
         [fs |-> f, st |-> st,
          res |-> IF FileStorage_get_metadata(b, f, st, tk.key).out = NoMetadata
                    THEN "None" ELSE FileStorage_get_metadata(b, f, st, tk.key).res]

\* A step of the tasks: what changes besides fs, storage, file_transfer, queue,
\* tasks and locks.
TaskStep(op, t, res) ==
  /\ last' = [op |-> op, args |-> <<t>>, res |-> res, outcome |-> "-"]
  /\ UNCHANGED <<backend, file_trie, twin, uploaded, capacity_queue, chain>>

\* The id a new task gets: the least one not in use, while events still come.
FreeTaskIds ==
  LET free == (1..MaxTasks) \ DOMAIN tasks IN
  IF calls < MaxCalls THEN {t \in free : \A u \in free : t <= u} ELSE {}

\* handle_new_storage_request_event from the registration of the file on
\* (lines 700-771): the write lock is taken for insert_file.
StartNewStorageRequest(t, m, volunteerOk) ==
  /\ t \in FreeTaskIds
  /\ file_key(m) \in Registered \/ Cardinality(Registered) < MaxFiles
  /\ file_transfer' = FileTransfer_register_new_file_peer(file_transfer, file_key(m))
  /\ tasks' = Put(tasks, t, [kind |-> "new_storage_request", stage |-> "main", key |-> file_key(m), arg |-> m,
                             mode |-> "write", ops |-> <<"insert_file">>, pc |-> "acquire",
                             res |-> "-", then |-> IF volunteerOk THEN "done" ELSE "unvolunteer"])
  /\ calls' = calls + 1
  /\ TaskStep("start", t, "new_storage_request")
  /\ UNCHANGED <<fs, storage, queue, locks>>

\* The RemoteUploadRequest handler up to its first lock (lines 140-174): a
\* proof that does not prove one chunk sends it to unvolunteer_file.
StartRemoteUploadRequest(t, event) ==
  LET pv == FileKeyProof_proven(event.file_key_proof)
      key == event.file_key
  IN
  /\ t \in FreeTaskIds
  /\ IF pv.res # "Ok" \/ Cardinality(pv.proven) # 1
       THEN /\ file_transfer' = FileTransfer_unregister_file(file_transfer, key).file_transfer
            /\ tasks' = Put(tasks, t, UnvolunteerTask("remote_upload_request", key))
       ELSE /\ file_transfer' = file_transfer
            /\ tasks' = Put(tasks, t, [kind |-> "remote_upload_request", stage |-> "main", key |-> key,
                                       arg |-> CHOOSE p \in pv.proven : TRUE,
                                       mode |-> "write", ops |-> <<"write_chunk">>,
                                       pc |-> "acquire", res |-> "-", then |-> "done"])
  /\ calls' = calls + 1
  /\ TaskStep("start", t, "remote_upload_request")
  /\ UNCHANGED <<fs, storage, queue, locks>>

\* The ProcessConfirmStoringRequest handler for the request at the head of the
\* queue, whose chunks to prove (ids) it has been given, up to its read lock
\* (lines 263-336).
StartProcessConfirm(t, ids) ==
  /\ t \in FreeTaskIds
  /\ queue # <<>>
  /\ queue' = Tail(queue)
  /\ tasks' = Put(tasks, t, [kind |-> "process_confirm", stage |-> "main", key |-> Head(queue).file_key,
                             arg |-> ids, mode |-> "read",
                             ops |-> <<"generate_proof", "get_metadata">>,
                             pc |-> "acquire", res |-> "-", then |-> Head(queue)])
  /\ calls' = calls + 1
  /\ TaskStep("start", t, "process_confirm")
  /\ UNCHANGED <<fs, storage, file_transfer, locks>>

\* file_storage.read().await / write().await returns.
Acquire(t) ==
  /\ t \in DOMAIN tasks
  /\ tasks[t].pc = "acquire"
  /\ RwLock_can_acquire(locks.file_storage, tasks[t].mode)
  /\ locks' = [locks EXCEPT !.file_storage = @ \cup {<<t, tasks[t].mode>>}]
  /\ tasks' = [tasks EXCEPT ![t].pc = "call"]
  /\ TaskStep("acquire", t, tasks[t].mode)
  /\ UNCHANGED <<fs, storage, file_transfer, queue, calls>>

\* The task enters its next File Storage call.
BeginCall(t) ==
  /\ t \in DOMAIN tasks
  /\ tasks[t].pc = "call"
  /\ tasks' = [tasks EXCEPT ![t].pc = "in_call"]
  /\ TaskStep("begin", t, Head(tasks[t].ops))
  /\ UNCHANGED <<fs, storage, file_transfer, queue, locks, calls>>

\* The call returns: its effect on the registry is there. A proof or metadata
\* that cannot be had is remembered until the lock is released.
EndCall(t) ==
  /\ t \in DOMAIN tasks
  /\ tasks[t].pc = "in_call"
  /\ \E r \in {RegistryCall(backend, fs, storage, tasks[t], Head(tasks[t].ops))} :
       /\ fs' = r.fs
       /\ storage' = r.st
       /\ tasks' = [tasks EXCEPT
            ![t].res = IF tasks[t].kind = "process_confirm" /\ tasks[t].res \notin {"-", "Ok"}
                         THEN tasks[t].res ELSE r.res,
            ![t].ops = Tail(@),
            ![t].pc = IF Tail(tasks[t].ops) = <<>> THEN "release" ELSE "call"]
       /\ TaskStep("end", t, r.res)
  /\ UNCHANGED <<file_transfer, queue, locks, calls>>

\* drop(write_file_storage) / drop(read_file_storage). The confirm handler
\* queues a failed request again before it drops its read lock (lines 352-361).
Release(t) ==
  /\ t \in DOMAIN tasks
  /\ tasks[t].pc = "release"
  /\ locks' = [locks EXCEPT !.file_storage = @ \ {<<t, tasks[t].mode>>}]
  /\ tasks' = [tasks EXCEPT ![t].pc = "react"]
  /\ queue' = IF tasks[t].kind = "process_confirm" /\ tasks[t].res # "Ok"
                THEN queue \o Retry(tasks[t].then).requeue ELSE queue
  /\ TaskStep("release", t, tasks[t].res)
  /\ UNCHANGED <<fs, storage, file_transfer, calls>>

\* What the handler does with the result once the lock is released: it ends,
\* or reports the complete file, or goes on to unvolunteer_file.
React(t) ==
  LET tk == tasks[t]
      unvolunteer ==
        /\ file_transfer' = FileTransfer_unregister_file(file_transfer, tk.key).file_transfer
        /\ tasks' = [tasks EXCEPT ![t] = UnvolunteerTask(tk.kind, tk.key)]
        /\ queue' = queue
      done ==
        /\ tasks' = Remove(tasks, t)
        /\ UNCHANGED <<file_transfer, queue>>
  IN
  /\ t \in DOMAIN tasks
  /\ tk.pc = "react"
  /\ CASE tk.res = "Panic" \/ tk.kind = "process_confirm" \/ tk.stage = "unvolunteer" -> done
       [] tk.kind = "new_storage_request" ->
            IF tk.res = "Ok" /\ tk.then = "done" THEN done ELSE unvolunteer
       [] tk.kind = "remote_upload_request" ->
            IF tk.res = "FileComplete"
              THEN \E c \in {BspUploadFileTask_on_file_complete(Node, tk.key)} :
                     /\ file_transfer' = c.n.file_transfer
                     /\ queue' = c.n.queue
                     /\ tasks' = Remove(tasks, t)
            ELSE IF tk.res \in Benign THEN done
            ELSE unvolunteer
  /\ TaskStep("react", t, tk.res)
  /\ UNCHANGED <<fs, storage, locks, calls>>

NextLocks ==
  \/ \E t \in 1..MaxTasks, m \in Metas, volunteerOk \in BOOLEAN :
       StartNewStorageRequest(t, m, volunteerOk)
  \/ \E t \in 1..MaxTasks, event \in RemoteUploadRequests : StartRemoteUploadRequest(t, event)
  \/ \E t \in 1..MaxTasks, ids \in (SUBSET ChunkIds) \ {{}} : StartProcessConfirm(t, ids)
  \/ \E t \in 1..MaxTasks : Acquire(t)
  \/ \E t \in 1..MaxTasks : BeginCall(t)
  \/ \E t \in 1..MaxTasks : EndCall(t)
  \/ \E t \in 1..MaxTasks : Release(t)
  \/ \E t \in 1..MaxTasks : React(t)

\* The BSP's upload task handling up to MaxTasks events at a time.
SpecLocks == InitConfirm /\ [][NextLocks]_vars

\* --------------------------------------------------- confirm storing claims
\* Whether the handler, in the current state, fails on `req`: the query of its
\* chunks to prove fails, or its proof cannot be generated, or its metadata
\* cannot be read.
ConfirmFails(req, qfail, ids) ==
  \/ req.file_key \in qfail
  \/ FileStorage_generate_proof(backend, fs, storage, req.file_key, ids).res # "Ok"
  \/ FileStorage_get_metadata(backend, fs, storage, req.file_key).res # "Ok"
  \/ FileStorage_get_metadata(backend, fs, storage, req.file_key).out = NoMetadata

\* The handler treats every request of the first k queued as C35 says.
RetriesAsSpecified(k, early, qfail, ids, late) ==
  LET reqs == SubSeq(queue, 1, k)
      r == BspUploadFileTask_handle_process_confirm_storing_request(
             backend, fs, storage, reqs, early, qfail, ids, late)
      Failing == {req \in Range(reqs) : ConfirmFails(req, qfail, ids)}
  IN
  IF early THEN r.requeue = <<>> /\ r.included = {} /\ r.lost = Range(reqs)
  ELSE
    /\ \A req \in Failing :
         LET again == [req EXCEPT !.try_count = req.try_count + 1] IN
         IF req.try_count + 1 <= 3
           THEN again \in Range(r.requeue) /\ again \notin r.dropped
           ELSE again \in r.dropped /\ again \notin Range(r.requeue)
    /\ Range(r.requeue) \cup r.dropped
         = {[req EXCEPT !.try_count = req.try_count + 1] : req \in Failing}
    /\ \A req \in Range(reqs) \ Failing :
         req.file_key \in r.included \/ req \in r.lost

InCall == {t \in DOMAIN tasks : tasks[t].pc = "in_call"}

\* C36: every mutating registry call (insert_file, write_chunk, delete_file)
\* is made while holding the file storage write lock and every generate_proof
\* and get_metadata while holding the read (or write) lock, so no two registry
\* mutations overlap and no read observes a mid-write state: a task inside a
\* mutating call is the only task inside a call, and the registry changes only
\* at the end of the call of such a task.
C36_LockDiscipline ==
  /\ [](\A t \in InCall :
          IF Head(tasks[t].ops) \in Mutating
            THEN <<t, "write">> \in locks.file_storage
            ELSE \E mode \in {"read", "write"} : <<t, mode>> \in locks.file_storage)
  /\ [](\A t \in InCall : Head(tasks[t].ops) \in Mutating => InCall = {t})
  /\ [][fs' # fs \/ storage' # storage =>
          \E t \in InCall : InCall = {t} /\ <<t, "write">> \in locks.file_storage]_vars

\* A handler is inside write_chunk under the write lock while another one,
\* which wants to read for a proof, waits for the lock.
C36_Witness ==
  \E t, u \in DOMAIN tasks :
    /\ tasks[t].pc = "in_call"
    /\ Head(tasks[t].ops) = "write_chunk"
    /\ <<t, "write">> \in locks.file_storage
    /\ tasks[u].pc = "acquire"
    /\ tasks[u].mode = "read"

\* ====================================================== storage capacity
\* StorageDataUnit is u64; the model keeps the arithmetic and narrows the type
\* to WordBits bits.
WordBits == 3

Word == 2 ^ WordBits

StorageDataUnits == 0..(Word - 1)

\* The provider configurations of the model: jump_capacity (not zero),
\* max_storage_capacity, and whether the build checks arithmetic overflow
\* (overflow-checks: a debug build panics where a release build wraps).
ProviderConfigs ==
  [jump_capacity : StorageDataUnits \ {0}, max_storage_capacity : StorageDataUnits,
   overflow_checks : BOOLEAN]

\* BspUploadFileTask::calculate_capacity (MspUploadFileTask::calculate_capacity
\* is the same): `+`, `-` and `*` are the plain operators of the type, the
\* addition to current_capacity is checked_add.
calculate_capacity(required_additional_capacity, current_capacity, cfg) ==
  LET jump_capacity == cfg.jump_capacity
      sum == required_additional_capacity + jump_capacity
      less_one == (sum % Word) - 1
      jumps_needed == (less_one % Word) \div jump_capacity
      jumps == IF jumps_needed > 1 THEN jumps_needed ELSE 1
      bytes_to_add == jumps * jump_capacity
      overflows == sum >= Word \/ less_one < 0 \/ bytes_to_add >= Word
      required_capacity == current_capacity + (bytes_to_add % Word)
  IN
  IF overflows /\ cfg.overflow_checks THEN [res |-> "Panic", val |-> 0]
  ELSE IF required_capacity >= Word THEN [res |-> "Err", val |-> 0]
  ELSE [res |-> "Ok",
        val |-> IF required_capacity < cfg.max_storage_capacity
                  THEN required_capacity ELSE cfg.max_storage_capacity]

\* calculate_capacity is called with a required and a current capacity.
CalculateCapacity(required, current) ==
  /\ calls < MaxCalls
  /\ calls' = calls + 1
  /\ \E r \in {calculate_capacity(required, current, chain)} :
       last' = [op |-> "calculate_capacity", args |-> <<required, current>>,
                res |-> r.res, outcome |-> r.val]
  /\ UNCHANGED <<backend, file_trie, twin, storage, fs, uploaded, file_transfer, queue,
                 capacity_queue, tasks, locks, chain>>

InitCalculate ==
  /\ backend = "InMemory"
  /\ file_trie = InMemoryFileDataTrie_new
  /\ twin = InMemoryFileDataTrie_new
  /\ storage = EmptyStorage
  /\ fs = InMemoryFileStorage_new
  /\ uploaded = EmptyFcn
  /\ calls = 0
  /\ last = [op |-> "new", args |-> <<>>, res |-> "Ok", outcome |-> "-"]
  /\ file_transfer = {}
  /\ queue = <<>>
  /\ capacity_queue = 0
  /\ tasks = EmptyFcn
  /\ locks = [file_storage |-> {}, capacity_queue |-> {}]
  /\ chain \in ProviderConfigs

NextCalculate ==
  \E required, current \in StorageDataUnits : CalculateCapacity(required, current)

\* A provider of any configuration computing new capacities.
SpecCalculate == InitCalculate /\ [][NextCalculate]_vars

\* The capacity the claim describes, over the integers: the current capacity
\* plus the jumps that cover the required capacity, at least one.
JumpedCapacity(required, current, cfg) ==
  LET j == cfg.jump_capacity
      jumps == (required + j - 1) \div j
  IN current + (IF jumps > 1 THEN jumps ELSE 1) * j

\* C38: calculate_capacity(required, current) returns min(current +
\* max(ceil(required / jump_capacity), 1) * jump_capacity,
\* max_storage_capacity): the result never exceeds max_storage_capacity and is
\* max_storage_capacity whenever the jumped capacity would exceed it; an error,
\* not a wrapped value, is returned when the addition to current overflows the
\* type.
C38_CalculateCapacity ==
  \A required, current \in StorageDataUnits :
    LET r == calculate_capacity(required, current, chain)
        jumped == JumpedCapacity(required, current, chain)
    IN
    IF jumped >= Word THEN r.res = "Err"
    ELSE /\ r.res = "Ok"
         /\ r.val <= chain.max_storage_capacity
         /\ r.val = IF jumped < chain.max_storage_capacity
                      THEN jumped ELSE chain.max_storage_capacity

\* calculate_capacity has just returned a capacity although the jumped
\* capacity does not fit the type: required + jump_capacity wrapped.
C38_Witness ==
  /\ last.op = "calculate_capacity"
  /\ last.res = "Ok"
  /\ JumpedCapacity(last.args[1], last.args[2], chain) >= Word
  /\ last.args[1] + chain.jump_capacity >= Word

\* ============================== raising the BSP's capacity (capacity_queue)
\* The NewStorageRequest handlers of a BSP that lacks capacity for the file
\* (handle_new_storage_request_event, lines 574-689). A handler is a task
\* [kind, pc, size, current_capacity, new_capacity]; the chain is the
\* provider's configuration with its capacity, its used capacity and the
\* change_capacity extrinsics submitted, each [by, new_capacity, status].
MaxSize == 2

\* tokio::sync::Mutex::lock().await returns once nobody holds the guard.
Mutex_can_lock_always(holders) == TRUE

Mutex_can_lock(holders) == holders = {}

\* capacity_queue.add(event.size): the plain addition of the u64 type.
capacity_queue_add(q, size, cfg) ==
  IF q + size >= Word /\ cfg.overflow_checks THEN [res |-> "Panic", val |-> q]
  ELSE [res |-> "Ok", val |-> (q + size) % Word]

CapacityTask(size, current, pc) ==
  [kind |-> "new_storage_request", pc |-> pc, size |-> size, current_capacity |-> current,
   new_capacity |-> 0]

query_available_storage_capacity == chain.capacity - chain.used

\* The handler returns: its task ends with the result res.
Returns(t, res) ==
  /\ tasks' = [u \in DOMAIN tasks \ {t} |-> tasks[u]]
  /\ last' = [op |-> "new_storage_request", args |-> <<t, tasks[t].size>>, res |-> res,
              outcome |-> tasks[t].pc]

Goes(t, pc) ==
  /\ tasks' = [tasks EXCEPT ![t].pc = pc]
  /\ last' = [op |-> pc, args |-> <<t, tasks[t].size>>, res |-> "-", outcome |-> tasks[t].pc]

\* A NewStorageRequest of a file of the given size arrives and the available
\* and the current capacity are queried (lines 574-606): the handler goes on to
\* the capacity queue when the file does not fit, unless the capacity is at its
\* maximum already.
StartCapacityRequest(t, size) ==
  /\ t \in FreeTaskIds
  /\ calls' = calls + 1
  /\ LET pc == IF query_available_storage_capacity >= size THEN "volunteer"
               ELSE IF chain.max_storage_capacity = chain.capacity THEN "fail"
               ELSE "enqueue"
     IN /\ tasks' = Put(tasks, t, CapacityTask(size, chain.capacity, pc))
        /\ last' = [op |-> "start", args |-> <<t, size>>, res |-> "-", outcome |-> pc]
  /\ UNCHANGED <<backend, file_trie, twin, storage, fs, uploaded, file_transfer, queue,
                 capacity_queue, locks, chain>>

\* The handler that needs no more capacity, or found the capacity at its
\* maximum, returns (the volunteering itself is not part of this model).
ReturnEarly(t) ==
  /\ t \in DOMAIN tasks
  /\ tasks[t].pc \in {"volunteer", "fail"}
  /\ Returns(t, IF tasks[t].pc = "volunteer" THEN "Ok" ELSE "Err")
  /\ UNCHANGED <<backend, file_trie, twin, storage, fs, uploaded, file_transfer, queue,
                 capacity_queue, locks, chain, calls>>

\* Lines 622-627: the guard is taken, the size is added, the guard is dropped.
Enqueue(t) ==
  /\ t \in DOMAIN tasks
  /\ tasks[t].pc = "enqueue"
  /\ Mutex_can_lock(locks.capacity_queue)
  /\ \E r \in {capacity_queue_add(capacity_queue, tasks[t].size, chain)} :
       /\ capacity_queue' = r.val
       /\ IF r.res = "Ok" THEN Goes(t, "wait_for_block") ELSE Returns(t, "Panic")
  /\ UNCHANGED <<backend, file_trie, twin, storage, fs, uploaded, file_transfer, queue,
                 locks, chain, calls>>

\* Lines 629-633: wait_for_block(earliest_change_capacity_block).await? returns.
WaitForBlock(t, ok) ==
  /\ t \in DOMAIN tasks
  /\ tasks[t].pc = "wait_for_block"
  /\ IF ok THEN Goes(t, "lock") ELSE Returns(t, "Err")
  /\ UNCHANGED <<backend, file_trie, twin, storage, fs, uploaded, file_transfer, queue,
                 capacity_queue, locks, chain, calls>>

\* Lines 635-646: the guard is taken and the queue is read. An empty queue
\* drops the guard; otherwise the new capacity is computed from the whole
\* queue and the capacity the handler queried at its start, and an error of
\* calculate_capacity returns, dropping the guard.
LockQueue(t) ==
  /\ t \in DOMAIN tasks
  /\ tasks[t].pc = "lock"
  /\ Mutex_can_lock(locks.capacity_queue)
  /\ IF capacity_queue > 0
       THEN \E r \in {calculate_capacity(capacity_queue, tasks[t].current_capacity, chain)} :
              IF r.res = "Ok"
                THEN /\ tasks' = [tasks EXCEPT ![t].pc = "send_extrinsic",
                                               ![t].new_capacity = r.val]
                     /\ last' = [op |-> "send_extrinsic", args |-> <<t, tasks[t].size>>,
                                 res |-> "-", outcome |-> "lock"]
                     /\ locks' = [locks EXCEPT !.capacity_queue = {t}]
                ELSE /\ Returns(t, r.res)
                     /\ UNCHANGED locks
       ELSE /\ Goes(t, "query")
            /\ UNCHANGED locks
  /\ UNCHANGED <<backend, file_trie, twin, storage, fs, uploaded, file_transfer, queue,
                 capacity_queue, chain, calls>>

\* Lines 648-650: send_extrinsic(change_capacity { new_capacity }).await? under
\* the guard; an error returns and drops the guard.
SendExtrinsic(t, ok) ==
  /\ t \in DOMAIN tasks
  /\ tasks[t].pc = "send_extrinsic"
  /\ IF ok
       THEN /\ chain' = [chain EXCEPT !.submitted =
                           Append(@, [by |-> t, new_capacity |-> tasks[t].new_capacity,
                                      status |-> "InFlight"])]
            /\ Goes(t, "watch_for_success")
            /\ UNCHANGED locks
       ELSE /\ Returns(t, "Err")
            /\ locks' = [locks EXCEPT !.capacity_queue = {}]
            /\ UNCHANGED chain
  /\ UNCHANGED <<backend, file_trie, twin, storage, fs, uploaded, file_transfer, queue,
                 capacity_queue, calls>>

\* Lines 651-667: with_timeout(..).watch_for_success(..).await? under the
\* guard. Success puts the new capacity on chain, and the handler resets the
\* queue and drops the guard; a failed extrinsic, a closed watcher or a
\* timeout returns the error and drops the guard, the queue as it was.
WatchForSuccess(t, result) ==
  /\ t \in DOMAIN tasks
  /\ tasks[t].pc = "watch_for_success"
  /\ LET i == CHOOSE i \in 1..Len(chain.submitted) :
                chain.submitted[i].by = t /\ chain.submitted[i].status = "InFlight"
     IN
     IF result = "Success"
       THEN /\ chain' = [chain EXCEPT !.submitted[i].status = "Success",
                                      !.capacity = tasks[t].new_capacity]
            /\ capacity_queue' = 0
            /\ Goes(t, "query")
       ELSE /\ chain' = [chain EXCEPT !.submitted[i].status = result]
            /\ Returns(t, "Err")
            /\ UNCHANGED capacity_queue
  /\ locks' = [locks EXCEPT !.capacity_queue = {}]
  /\ UNCHANGED <<backend, file_trie, twin, storage, fs, uploaded, file_transfer, queue, calls>>

\* Lines 671-689: the available capacity is queried again; the handler gives
\* up if the file still does not fit.
QueryAgain(t) ==
  /\ t \in DOMAIN tasks
  /\ tasks[t].pc = "query"
  /\ Returns(t, IF query_available_storage_capacity < tasks[t].size THEN "Err" ELSE "Ok")
  /\ UNCHANGED <<backend, file_trie, twin, storage, fs, uploaded, file_transfer, queue,
                 capacity_queue, locks, chain, calls>>

InitCapacity ==
  /\ backend = "InMemory"
  /\ file_trie = InMemoryFileDataTrie_new
  /\ twin = InMemoryFileDataTrie_new
  /\ storage = EmptyStorage
  /\ fs = InMemoryFileStorage_new
  /\ uploaded = EmptyFcn
  /\ calls = 0
  /\ last = [op |-> "new", args |-> <<>>, res |-> "Ok", outcome |-> "-"]
  /\ file_transfer = {}
  /\ queue = <<>>
  /\ capacity_queue = 0
  /\ tasks = EmptyFcn
  /\ locks = [file_storage |-> {}, capacity_queue |-> {}]
  /\ \E cfg \in ProviderConfigs, capacity \in 0..1 :
       /\ capacity <= cfg.max_storage_capacity
       /\ cfg.jump_capacity \in {1, 3}
       /\ cfg.max_storage_capacity >= Word - 2
       /\ chain = [provider |-> "bsp", jump_capacity |-> cfg.jump_capacity,
                   max_storage_capacity |-> cfg.max_storage_capacity,
                   overflow_checks |-> cfg.overflow_checks,
                   capacity |-> capacity, used |-> capacity, submitted |-> <<>>]

ExtrinsicResults == {"Success", "Failure", "Timeout"}

NextCapacity ==
  \/ \E t \in 1..MaxTasks, size \in 1..MaxSize : StartCapacityRequest(t, size)
  \/ \E t \in 1..MaxTasks : ReturnEarly(t)
  \/ \E t \in 1..MaxTasks : Enqueue(t)
  \/ \E t \in 1..MaxTasks, ok \in BOOLEAN : WaitForBlock(t, ok)
  \/ \E t \in 1..MaxTasks : LockQueue(t)
  \/ \E t \in 1..MaxTasks, ok \in BOOLEAN : SendExtrinsic(t, ok)
  \/ \E t \in 1..MaxTasks, result \in ExtrinsicResults : WatchForSuccess(t, result)
  \/ \E t \in 1..MaxTasks : QueryAgain(t)

\* A BSP short of capacity and its NewStorageRequest handlers.
SpecCapacity == InitCapacity /\ [][NextCapacity]_vars

\* The change_capacity extrinsics submitted and still watched by their handler.
InFlight == {i \in 1..Len(chain.submitted) : chain.submitted[i].status = "InFlight"}

\* The handlers between taking the guard with a queue to serve and dropping it.
Submitting == {t \in DOMAIN tasks : tasks[t].pc \in {"send_extrinsic", "watch_for_success"}}

\* C37: concurrent NewStorageRequest handlers of a BSP share capacity_queue.
\* A handler that lacks capacity adds its file size to the queue before it
\* waits for the change-capacity block. Afterwards the mutex serializes the
\* handlers: one that finds the queue above 0 submits one change_capacity
\* computed from the whole queue and resets the queue to 0 only after that
\* extrinsic succeeded, one that finds 0 submits nothing. At most one
\* change_capacity submission is in flight (submitted and watched by its
\* handler) at any time, and the queue never loses a size except by the reset
\* that follows a successful change_capacity.
C37_CapacityIsRaisedInBatches ==
  /\ [](/\ Cardinality(InFlight) <= 1
        /\ Cardinality(Submitting) <= 1
        /\ locks.capacity_queue = Submitting
        /\ \A i \in InFlight : /\ chain.submitted[i].by \in DOMAIN tasks
                               /\ tasks[chain.submitted[i].by].pc = "watch_for_success")
  /\ [][/\ \A t \in DOMAIN tasks' :
             tasks'[t].pc = "wait_for_block" /\ (t \notin DOMAIN tasks \/ tasks[t].pc # "wait_for_block")
             => /\ t \in DOMAIN tasks
                /\ tasks[t].pc = "enqueue"
                /\ capacity_queue' = capacity_queue + tasks[t].size
        /\ Len(chain'.submitted) > Len(chain.submitted)
             => /\ InFlight = {}
                /\ capacity_queue > 0
                /\ capacity_queue' = capacity_queue
                /\ Len(chain'.submitted) = Len(chain.submitted) + 1
                /\ LET x == chain'.submitted[Len(chain'.submitted)] IN
                   /\ x.by \in Submitting
                   /\ x.new_capacity =
                        calculate_capacity(capacity_queue, tasks[x.by].current_capacity, chain).val
                   /\ calculate_capacity(capacity_queue, tasks[x.by].current_capacity, chain).res = "Ok"
        /\ capacity_queue' < capacity_queue
             => /\ capacity_queue' = 0
                /\ \E i \in InFlight : chain'.submitted[i].status = "Success"
        /\ \A t \in DOMAIN tasks :
             tasks[t].pc = "lock" /\ capacity_queue = 0
             => chain'.submitted = chain.submitted \/ (t \in DOMAIN tasks' /\ tasks'[t] = tasks[t])
       ]_vars

\* Two handlers added their sizes, one of them raised the capacity for both
\* with a single change_capacity and reset the queue; the other still waits
\* for the guard and will find the queue empty.
C37_Witness ==
  /\ last.op = "query"
  /\ last.outcome = "watch_for_success"
  /\ capacity_queue = 0
  /\ Len(chain.submitted) = 1
  /\ chain.submitted[1].status = "Success"
  /\ \E u \in DOMAIN tasks :
       /\ u # last.args[1]
       /\ tasks[u].pc = "lock"
       /\ chain.capacity - chain.used >= tasks[u].size + last.args[2]

\* ================================================ SubmittedTransaction
\* watch_for_success of one submitted transaction. The task is the call:
\* [kind, pc, timeout, deadline, block_hash, res, err], with Option values as
\* sequences (<<>> is None, <<x>> is Some(x)). The chain is what the call
\* depends on: the time in seconds since `start_time`, the watcher channel
\* (the messages sent and not yet received, and whether the sender is gone),
\* and when the watcher sent an inBlock status.
NO_TIMEOUT_INTERVAL_WARNING == 60

\* The seconds between two readings of the clock in the model.
TickSeconds == 30
\* The longest timeout of the model, in ticks.
MaxTimeout == 2
\* The time up to which the model follows a call, in ticks.
MaxTime == 4
\* Most messages the watcher sends.
MaxMessages == 2

\* What the watcher sends: a status other than inBlock, an inBlock status, an
\* inBlock status without a usable block hash or subscription id, and a string
\* that is no JSON.
WatcherMessages == {"ready", "inBlock", "inBlockUnusable", "notJson"}

SubmittedTransaction_new ==
  [kind |-> "watch_for_success", pc |-> "new", timeout |-> <<>>, deadline |-> 0,
   block_hash |-> <<>>, res |-> "-", err |-> "-"]

SubmittedTransaction_with_timeout(tx, timeout) == [tx EXCEPT !.timeout = <<timeout>>]

Failed(tx, err) == [tx EXCEPT !.pc = "done", !.res = "Err", !.err = err]

\* The top of the loop of watch_transaction (lines 145-164): the timeout is
\* checked against the elapsed time, and the call waits for the watcher for
\* the remaining time, or for NO_TIMEOUT_INTERVAL_WARNING without a timeout.
watch_transaction_loop(tx, elapsed) ==
  IF tx.timeout # <<>>
    THEN IF elapsed > tx.timeout[1] THEN Failed(tx, "Timeout")
         ELSE [tx EXCEPT !.pc = "recv", !.deadline = elapsed + (tx.timeout[1] - elapsed)]
    ELSE [tx EXCEPT !.pc = "recv", !.deadline = elapsed + NO_TIMEOUT_INTERVAL_WARNING]

\* Lines 188-214: what a received message does.
watch_transaction_received(tx, msg, elapsed) ==
  CASE msg = "notJson" -> Failed(tx, "NotJson")
    [] msg = "inBlockUnusable" -> Failed(tx, "Unusable")
    [] msg = "inBlock" -> [tx EXCEPT !.pc = "unwatch_extrinsic", !.block_hash = <<"hash">>]
    [] OTHER -> watch_transaction_loop(tx, elapsed)

\* Lines 171-186: the wait for the watcher timed out.
watch_transaction_elapsed_failing(tx, elapsed) == Failed(tx, "Timeout")

watch_transaction_elapsed(tx, elapsed) ==
  IF tx.timeout # <<>> THEN Failed(tx, "Timeout") ELSE watch_transaction_loop(tx, elapsed)

\* The timer of tokio::time::timeout is due and the channel has nothing to
\* hand over: the future is polled before the timer.
TimerDue ==
  /\ 1 \in DOMAIN tasks
  /\ tasks[1].pc = "recv"
  /\ chain.now >= tasks[1].deadline
  /\ chain.inbox = <<>>
  /\ ~chain.closed

Watched(op, tx, ch) ==
  /\ tasks' = [tasks EXCEPT ![1] = tx]
  /\ chain' = ch
  /\ last' = [op |-> op, args |-> <<>>, res |-> tx.res, outcome |-> tx.err]
  /\ UNCHANGED <<backend, file_trie, twin, storage, fs, uploaded, file_transfer, queue,
                 capacity_queue, locks, calls>>

\* watch_for_success is called.
WatchCall ==
  /\ tasks[1].pc = "new"
  /\ Watched("watch_for_success", watch_transaction_loop(tasks[1], chain.now), chain)

\* watcher.recv() returns a message.
Recv ==
  /\ tasks[1].pc = "recv"
  /\ chain.inbox # <<>>
  /\ Watched("recv", watch_transaction_received(tasks[1], Head(chain.inbox), chain.now),
             [chain EXCEPT !.inbox = Tail(@)])

\* watcher.recv() returns None: the channel is closed and empty (line 167).
RecvNone ==
  /\ tasks[1].pc = "recv"
  /\ chain.inbox = <<>>
  /\ chain.closed
  /\ Watched("recv_none", Failed(tasks[1], "ChannelClosed"), chain)

\* tokio::time::timeout elapses (lines 171-186): an error with a timeout set,
\* the next round of the loop without.
TimerFires ==
  /\ TimerDue
  /\ Watched("elapsed", watch_transaction_elapsed(tasks[1], chain.now), chain)

\* unwatch_extrinsic(subscription_id).await? (lines 205-207).
UnwatchExtrinsic(ok) ==
  /\ tasks[1].pc = "unwatch_extrinsic"
  /\ Watched("unwatch_extrinsic",
             IF ok THEN [tasks[1] EXCEPT !.pc = "get_extrinsic_from_block"]
             ELSE Failed(tasks[1], "Unwatch"),
             chain)

\* get_extrinsic_from_block(block_hash, hash).await? and the result of the
\* extrinsic found (lines 218-224 and 75-95).
GetExtrinsicFromBlock(found) ==
  /\ tasks[1].pc = "get_extrinsic_from_block"
  /\ Watched("get_extrinsic_from_block",
             CASE found = "Success" -> [tasks[1] EXCEPT !.pc = "done", !.res = "Ok"]
               [] found = "Failure" -> Failed(tasks[1], "ExtrinsicFailed")
               [] found = "NoEvent" -> Failed(tasks[1], "NoEvent")
               [] OTHER -> Failed(tasks[1], "GetExtrinsic"),
             [chain EXCEPT !.extrinsic = found])

\* The watcher sends a message.
WatcherSends(msg) ==
  /\ tasks[1].pc # "done"
  /\ ~chain.closed
  /\ chain.sent < MaxMessages
  /\ msg = "inBlock" => chain.in_block_at = <<>>
  /\ chain' = [chain EXCEPT !.inbox = Append(@, msg), !.sent = @ + 1,
                            !.in_block_at = IF msg = "inBlock" THEN <<chain.now>> ELSE @]
  /\ UNCHANGED <<backend, file_trie, twin, storage, fs, uploaded, file_transfer, queue,
                 capacity_queue, locks, calls, tasks, last>>

\* The sender of the watcher channel is dropped.
WatcherCloses ==
  /\ tasks[1].pc # "done"
  /\ ~chain.closed
  /\ chain' = [chain EXCEPT !.closed = TRUE]
  /\ UNCHANGED <<backend, file_trie, twin, storage, fs, uploaded, file_transfer, queue,
                 capacity_queue, locks, calls, tasks, last>>

\* Time passes. The call is polled when its timer is due: time does not
\* pass a due timer.
Tick ==
  /\ tasks[1].pc # "done"
  /\ chain.now < MaxTime * TickSeconds
  /\ ~TimerDue
  /\ chain' = [chain EXCEPT !.now = @ + TickSeconds]
  /\ UNCHANGED <<backend, file_trie, twin, storage, fs, uploaded, file_transfer, queue,
                 capacity_queue, locks, calls, tasks, last>>

Timeouts == {<<>>} \cup {<<s * TickSeconds>> : s \in 0..MaxTimeout}

InitWatch ==
  /\ backend = "InMemory"
  /\ file_trie = InMemoryFileDataTrie_new
  /\ twin = InMemoryFileDataTrie_new
  /\ storage = EmptyStorage
  /\ fs = InMemoryFileStorage_new
  /\ uploaded = EmptyFcn
  /\ calls = 0
  /\ last = [op |-> "new", args |-> <<>>, res |-> "-", outcome |-> "-"]
  /\ file_transfer = {}
  /\ queue = <<>>
  /\ capacity_queue = 0
  /\ locks = [file_storage |-> {}, capacity_queue |-> {}]
  /\ \E timeout \in Timeouts :
       tasks = [t \in {1} |-> IF timeout = <<>> THEN SubmittedTransaction_new
                              ELSE SubmittedTransaction_with_timeout(SubmittedTransaction_new,
                                                                     timeout[1])]
  /\ chain = [now |-> 0, inbox |-> <<>>, closed |-> FALSE, sent |-> 0, in_block_at |-> <<>>,
              extrinsic |-> "-"]

Handles ==
  \/ WatchCall
  \/ Recv
  \/ RecvNone
  \/ TimerFires
  \/ \E ok \in BOOLEAN : UnwatchExtrinsic(ok)
  \/ \E found \in {"Success", "Failure", "NoEvent", "Error"} : GetExtrinsicFromBlock(found)

NextWatch ==
  \/ Handles
  \/ \E msg \in WatcherMessages : WatcherSends(msg)
  \/ WatcherCloses
  \/ Tick

\* One call of watch_for_success, its watcher and the clock.
SpecWatch == InitWatch /\ [][NextWatch]_vars

\* The runtime polls a call that can go on, replies arrive, and time passes.
SpecWatchLive == SpecWatch /\ WF_vars(Handles) /\ WF_vars(Tick)

\* The watcher sent an inBlock status no later than s seconds after the start.
InBlockWithin(s) == chain.in_block_at # <<>> /\ chain.in_block_at[1] <= s

\* C39: watch_for_success returns Ok only after the watcher delivered an
\* inBlock status and the extrinsic fetched from that block has the result
\* Success. It returns an error if the result is Failure, if the watcher
\* channel closes, or, with a timeout set, if no inBlock status arrives within
\* the timeout; with no timeout set it never fails for the time elapsed but
\* keeps waiting.
C39_WatchForSuccess ==
  /\ [](tasks[1].res = "Ok" => /\ tasks[1].pc = "done"
                               /\ tasks[1].block_hash # <<>>
                               /\ chain.in_block_at # <<>>
                               /\ chain.extrinsic = "Success")
  /\ [](tasks[1].pc = "done" /\ chain.extrinsic = "Failure" => tasks[1].res = "Err")
  /\ [][tasks[1].pc = "recv" /\ chain.closed /\ chain.inbox = <<>> /\ tasks' # tasks
          => tasks'[1].pc = "done" /\ tasks'[1].res = "Err"]_vars
  /\ [](tasks[1].timeout # <<>> /\ tasks[1].res = "Ok" => InBlockWithin(tasks[1].timeout[1]))
  /\ (/\ tasks[1].timeout # <<>>
      /\ chain.now > tasks[1].timeout[1]
      /\ ~InBlockWithin(tasks[1].timeout[1]))
       ~> (tasks[1].pc = "done" /\ tasks[1].res = "Err")
  /\ [](tasks[1].timeout = <<>> => tasks[1].err # "Timeout")
  /\ [](tasks[1].timeout = <<>> /\ tasks[1].pc = "done" => chain.sent > 0 \/ chain.closed)
  /\ [][tasks[1].timeout = <<>> /\ TimerDue /\ tasks' # tasks
          => tasks'[1].pc = "recv" /\ tasks'[1].res = "-"]_vars

\* A call without a timeout waited longer than the warning interval, then
\* the inBlock status arrived, the extrinsic was found successful and the
\* call returned Ok.
C39_Witness ==
  /\ tasks[1].kind = "watch_for_success"
  /\ tasks[1].timeout = <<>>
  /\ tasks[1].res = "Ok"
  /\ chain.in_block_at # <<>>
  /\ chain.in_block_at[1] >= NO_TIMEOUT_INTERVAL_WARNING
  /\ chain.extrinsic = "Success"

====
